---- MODULE Spec2Model ----
(***************************************************************************)
(* A model of the controlled-generation engine of LLM-CAD:                 *)
(*   - PartGraph            (src/src/core/part_graph.py)                   *)
(*   - the LangGraph workflow planner -> processors -> generator ->        *)
(*     inspector            (src/CAD/src/graph.py and src/CAD/src/agents)  *)
(*   - DiffGuard, PlanValidator, CodeEmitter     (src/src/core)            *)
(*   - the controller's session and its background operations              *)
(*                          (src/src/app)                                  *)
(* Python dicts are functions whose DOMAIN is the key set, so that the     *)
(* difference between a missing key and an empty value (defaultdict) is    *)
(* part of the state.  Python lists are sequences.                         *)
(***************************************************************************)
EXTENDS Integers, Sequences, FiniteSets, TLC

VARIABLES
    \* ---- PartGraph -------------------------------------------------------
    parts,          \* self.parts: name -> Part (a function on the key set)
    order,          \* insertion order of the keys of self.parts
    adj_list,       \* self._adj_list: defaultdict(set), key set = DOMAIN
    rev_adj_list,   \* self._rev_adj_list: defaultdict(set)
    raised,         \* exception that escaped the last PartGraph call
    returned,       \* the last PartGraph call and the value it returned
    ops,            \* number of PartGraph calls made so far
    \* ---- workflow (AgentState and the position in the LangGraph) ----------
    node,           \* node LangGraph runs next, END, or "crashed"
    plan,           \* AgentState.plan
    worker_outputs, \* AgentState.worker_outputs
    full_code,      \* AgentState.full_code
    inspector_feedback, \* AgentState.inspector_feedback
    iteration_count,    \* AgentState.iteration_count
    messages,       \* AgentState.messages
    escaped,        \* exception that escaped a node
    anchor_registry,    \* AgentState.anchor_registry
    debug_metadata,     \* AgentState.debug_metadata
    ran,            \* history: the nodes executed so far, with their outcome
    status,         \* the local variable status of InspectorAgent.inspect
    \* ---- DiffGuard, the controller's code, PlanValidator, CodeEmitter -----
    original_code,  \* DiffGuard.original_code
    user_edits,     \* DiffGuard.user_edits, in insertion order
    protected_regions,      \* DiffGuard.protected_regions
    protected_variables,    \* DiffGuard.protected_variables
    current_code,   \* CADController._current_code
    merged,         \* the last merge_code call: its argument and its result
    guard_call,     \* the last call on the guard or the controller's code
    loaded,         \* the plan last handed to PartGraph.from_plan
    checked,        \* the last PlanValidator.validate call and its result
    emitted,        \* the last CodeEmitter call and its result
    \* ---- the session of the front end and its background operations -------
    current_model_path,     \* CADController._current_model_path
    current_plan,   \* CADController._current_plan
    is_busy,        \* CADController._is_busy
    generator_last_plan,    \* FullGenerator.last_plan
    worker,         \* the GenerationWorker of WorkerThread and where it is
    render,         \* CADWindow._render_process, _render_queue, _render_timer
    \* ---- the renderer: its module globals and the output directory --------
    CODE_CACHE,     \* renderer._CODE_CACHE: hash of the cleaned code -> path
    PRELOADED_GLOBALS,  \* renderer._PRELOADED_GLOBALS: None or the names in it
    model_files,    \* the model files of the output directory: path -> the
                    \* script whose execution wrote the file
    toolkit,        \* whether build123d is installed
    threads,        \* the preload thread and the thread of a render call
    rendered        \* the last render call that returned, and its result

graph_vars == <<parts, order, adj_list, rev_adj_list, raised, returned, ops>>
wf_vars == <<node, plan, worker_outputs, full_code, inspector_feedback,
             iteration_count, messages, escaped, anchor_registry, debug_metadata,
             ran, status>>
job_vars == <<current_model_path, current_plan, is_busy, generator_last_plan,
              worker, render>>
render_vars == <<CODE_CACHE, PRELOADED_GLOBALS, model_files, toolkit, threads,
                 rendered>>
core_vars == <<original_code, user_edits, protected_regions, protected_variables,
               current_code, merged, guard_call, loaded, checked, emitted,
               current_model_path, current_plan, is_busy, generator_last_plan,
               worker, render>>
vars == <<parts, order, adj_list, rev_adj_list, raised, returned, ops,
          node, plan, worker_outputs, full_code, inspector_feedback,
          iteration_count, messages, escaped, anchor_registry, debug_metadata,
          ran, status,
          original_code, user_edits, protected_regions, protected_variables,
          current_code, merged, guard_call, loaded, checked, emitted,
          current_model_path, current_plan, is_busy, generator_last_plan,
          worker, render,
          CODE_CACHE, PRELOADED_GLOBALS, model_files, toolkit, threads, rendered>>

(***************************************************************************)
(* Bounds of the model.                                                    *)
(***************************************************************************)
Names == {"A", "B", "C"}    \* part names the callers may use
MaxDeps == 1                \* longest dependencies list of a Part
MaxPlanLen == 2             \* longest plan handed to from_plan
MaxOps == 3                 \* number of mutating PartGraph calls on one object
MaxSortOps == 5             \* the same, where only the topological order is asked

None == "None"              \* Python's None

(***************************************************************************)
(* Python helpers.                                                         *)
(***************************************************************************)
SeqsUpTo(S, n) == UNION {[1..k -> S] : k \in 0..n}

Range(s) == {s[i] : i \in DOMAIN s}

\* list.remove(x): drops the first occurrence of x
ListRemove(s, x) ==
    LET i == CHOOSE k \in DOMAIN s : s[k] = x /\ \A j \in 1..(k - 1) : s[j] # x
    IN  [k \in 1..(Len(s) - 1) |-> IF k < i THEN s[k] ELSE s[k + 1]]

\* d[k] of a defaultdict(set), read without storing the default
DefaultGet(d, k) == IF k \in DOMAIN d THEN d[k] ELSE {}

\* d[k] = v
DictSet(d, k, v) == [x \in DOMAIN d \cup {k} |-> IF x = k THEN v ELSE d[x]]

\* del d[k], for a key that is present
DictDel(d, k) == [x \in DOMAIN d \ {k} |-> d[x]]

\* all orders in which a Python set may be iterated
Perms(S) == {s \in [1..Cardinality(S) -> S] : Range(s) = S}

(***************************************************************************)
(* Part and PartGraph.                                                     *)
(***************************************************************************)
DepLists == SeqsUpTo(Names, MaxDeps)

\* Part(name=..., dependencies=deps): the dataclass defaults for the rest
Part(deps) ==
    [dependencies |-> deps, dependents |-> <<>>, code |-> "",
     is_dirty |-> FALSE, is_locked |-> FALSE]

\* the graph as one value: what the methods read and write
Graph(p, o, a, r) == [parts |-> p, order |-> o, adj |-> a, rev |-> r]

Self == Graph(parts, order, adj_list, rev_adj_list)

EmptyGraph == Graph(<<>>, <<>>, <<>>, <<>>)

\* the loop of add_part over part.dependencies, from position i
RECURSIVE AddDeps(_, _, _, _)
AddDeps(g, name, deps, i) ==
    IF i > Len(deps) THEN g
    ELSE LET dep == deps[i]
             a == DictSet(g.adj, name, DefaultGet(g.adj, name) \cup {dep})
             r == DictSet(g.rev, dep, DefaultGet(g.rev, dep) \cup {name})
             p == IF dep \in DOMAIN g.parts
                  THEN [g.parts EXCEPT ![dep].dependents = Append(@, name)]
                  ELSE g.parts
         IN  AddDeps(Graph(p, g.order, a, r), name, deps, i + 1)

\* an add_part that records the edges to the parts that are there already
add_part_known(g, name, deps) ==
    LET p == DictSet(g.parts, name, Part(deps))
        o == IF name \in DOMAIN g.parts THEN g.order ELSE Append(g.order, name)
    IN  AddDeps(Graph(p, o, g.adj, g.rev), name,
                SelectSeq(deps, LAMBDA d : d \in DOMAIN g.parts), 1)

\* PartGraph.add_part(Part(name, dependencies=deps))
add_part(g, name, deps) ==
    LET p == DictSet(g.parts, name, Part(deps))
        o == IF name \in DOMAIN g.parts THEN g.order ELSE Append(g.order, name)
    IN  AddDeps(Graph(p, o, g.adj, g.rev), name, deps, 1)

\* first loop of remove_part: over part.dependencies
RECURSIVE RemoveDeps(_, _, _, _)
RemoveDeps(g, name, deps, i) ==
    IF i > Len(deps) THEN g
    ELSE LET dep == deps[i]
             r == DictSet(g.rev, dep, DefaultGet(g.rev, dep) \ {name})
             p == IF dep \in DOMAIN g.parts /\ name \in Range(g.parts[dep].dependents)
                  THEN [g.parts EXCEPT ![dep].dependents = ListRemove(@, name)]
                  ELSE g.parts
         IN  RemoveDeps(Graph(p, g.order, g.adj, r), name, deps, i + 1)

\* second loop of remove_part: over part.dependents
RECURSIVE RemoveDependents(_, _, _, _)
RemoveDependents(g, name, dependents, i) ==
    IF i > Len(dependents) THEN g
    ELSE LET dependent == dependents[i]
             a == DictSet(g.adj, dependent, DefaultGet(g.adj, dependent) \ {name})
             p == IF dependent \in DOMAIN g.parts
                     /\ name \in Range(g.parts[dependent].dependencies)
                  THEN [g.parts EXCEPT ![dependent].dependencies = ListRemove(@, name)]
                  ELSE g.parts
         IN  RemoveDependents(Graph(p, g.order, a, g.rev), name, dependents, i + 1)

\* PartGraph.remove_part(name): the graph it leaves and the exception it raises
remove_part(g, name) ==
    IF name \notin DOMAIN g.parts THEN [graph |-> g, exc |-> None]
    ELSE LET g1 == RemoveDeps(g, name, g.parts[name].dependencies, 1)
             g2 == RemoveDependents(g1, name, g1.parts[name].dependents, 1)
         IN  IF name \notin DOMAIN g2.adj
             THEN [graph |-> g2, exc |-> "KeyError"]
             ELSE LET g3 == Graph(g2.parts, g2.order, DictDel(g2.adj, name), g2.rev)
                  IN  IF name \notin DOMAIN g3.rev
                      THEN [graph |-> g3, exc |-> "KeyError"]
                      ELSE [graph |-> Graph(DictDel(g3.parts, name),
                                            SelectSeq(g3.order, LAMBDA n : n # name),
                                            g3.adj, DictDel(g3.rev, name)),
                            exc |-> None]

\* a plan item: item.get("name"), item.get("dependencies", [])
PlanItems == [name : Names, dependencies : DepLists]

Plans == SeqsUpTo(PlanItems, MaxPlanLen)

\* the loop of from_plan over the plan, from position i
RECURSIVE AddItems(_, _, _)
AddItems(g, items, i) ==
    IF i > Len(items) THEN g
    ELSE AddItems(add_part(g, items[i].name, items[i].dependencies), items, i + 1)

\* PartGraph.from_plan(plan)
from_plan(items) == AddItems(EmptyGraph, items, 1)

(***************************************************************************)
(* The queries of PartGraph.  Reading a defaultdict stores the default, so *)
(* a query returns a value and leaves a graph with more keys.              *)
(***************************************************************************)
\* the nodes dfs visits from start, following via (a defaultdict of sets)
RECURSIVE Visit(_, _)
Visit(via, seen) ==
    LET more == seen \cup UNION {DefaultGet(via, n) : n \in seen}
    IN  IF more = seen THEN seen ELSE Visit(via, more)

\* the list a dfs of get_affected_parts / get_dependencies appends to, as a
\* bag (name -> number of occurrences): every visited node appends each
\* member of via[node] once; only the order depends on set iteration
Collected(via, start) ==
    LET visited == Visit(via, {start})
    IN  [n \in Names |-> Cardinality({m \in visited : n \in DefaultGet(via, m)})]

\* d after d[k] was read for every k in keys
TouchAll(d, keys) ==
    [x \in DOMAIN d \cup keys |-> IF x \in DOMAIN d THEN d[x] ELSE {}]

\* PartGraph.get_affected_parts(name)
get_affected_parts(g, name) ==
    [value |-> Collected(g.rev, name),
     graph |-> Graph(g.parts, g.order, g.adj, TouchAll(g.rev, Visit(g.rev, {name})))]

\* PartGraph.get_dependencies(name)
get_dependencies(g, name) ==
    [value |-> Collected(g.adj, name),
     graph |-> Graph(g.parts, g.order, TouchAll(g.adj, Visit(g.adj, {name})), g.rev)]

\* in_degree of topological_sort: the dependencies that are parts
InDegree(g) ==
    [n \in DOMAIN g.parts |->
        Cardinality({dep \in DefaultGet(g.adj, n) : dep \in DOMAIN g.parts})]

\* the while loop of topological_sort; the members of a set are visited in
\* any order, so the loop has a set of possible results
RECURSIVE Kahn(_, _, _, _)
Kahn(g, in_degree, queue, result) ==
    IF queue = <<>> THEN {result}
    ELSE LET qnode == Head(queue)
             hit == {d \in DefaultGet(g.rev, qnode) : d \in DOMAIN in_degree}
             deg == [n \in DOMAIN in_degree |->
                        IF n \in hit THEN in_degree[n] - 1 ELSE in_degree[n]]
             zero == {d \in hit : deg[d] = 0}
         IN  UNION {Kahn(g, deg, Tail(queue) \o p, Append(result, qnode)) :
                        p \in Perms(zero)}

\* PartGraph.topological_sort(): every list it may return
topological_sort(g) ==
    LET in_degree == InDegree(g)
    IN  Kahn(g, in_degree, SelectSeq(g.order, LAMBDA n : in_degree[n] = 0), <<>>)

\* the graph topological_sort leaves when it returned result
AfterSort(g, result) ==
    Graph(g.parts, g.order, TouchAll(g.adj, DOMAIN g.parts),
          TouchAll(g.rev, Range(result)))

\* a first loop that looks at the part's own edges only, not at everything
\* get_dependencies collects
CircularDirect(g) ==
    LET hit(n) == n \in DefaultGet(g.adj, n)
        names == SelectSeq(g.order, hit)
    IN  [i \in DOMAIN names |-> [kind |-> "circular", part |-> names[i], dep |-> None]]

\* first loop of validate: "Circular dependency detected for {name}"
Circular(g) ==
    LET hit(n) == get_dependencies(g, n).value[n] > 0
        names == SelectSeq(g.order, hit)
    IN  [i \in DOMAIN names |-> [kind |-> "circular", part |-> names[i], dep |-> None]]

\* the inner loop of validate's second loop, for one part
Dangling(g, n) ==
    LET deps == SelectSeq(g.parts[n].dependencies, LAMBDA d : d \notin DOMAIN g.parts)
    IN  [i \in DOMAIN deps |-> [kind |-> "missing", part |-> n, dep |-> deps[i]]]

RECURSIVE DanglingFrom(_, _)
DanglingFrom(g, i) ==
    IF i > Len(g.order) THEN <<>>
    ELSE Dangling(g, g.order[i]) \o DanglingFrom(g, i + 1)

\* PartGraph.validate()
validate(g) ==
    [value |-> Circular(g) \o DanglingFrom(g, 1),
     graph |-> Graph(g.parts, g.order,
                     TouchAll(g.adj, Visit(g.adj, DOMAIN g.parts)), g.rev)]

(***************************************************************************)
(* The PartGraph object as a state machine: one action per method call.    *)
(***************************************************************************)
\* an absent AgentState key (state.get(...) is None), and a present one
Absent == [is_none |-> TRUE]

Some(v) == [is_none |-> FALSE, value |-> v]

\* the workflow variables while only a PartGraph is exercised
WfIdle ==
    /\ node = "idle" /\ plan = Absent /\ worker_outputs = Absent
    /\ full_code = Absent /\ inspector_feedback = Absent
    /\ iteration_count = 0 /\ messages = <<>> /\ escaped = None
    /\ anchor_registry = Absent /\ debug_metadata = Absent
    /\ ran = <<>> /\ status = None

\* a text: its lines as str.splitlines() gives them, and whether a line break
\* ends the last line
Text(lines, nl) == [lines |-> lines, nl |-> nl]

EmptyText == Text(<<>>, FALSE)

\* DiffGuard.__init__
GuardInit ==
    /\ original_code = EmptyText /\ user_edits = <<>>
    /\ protected_regions = <<>> /\ protected_variables = {}

\* no guard call, no validation and no emission was made
NoCoreCall ==
    /\ merged = [fresh |-> EmptyText, result |-> EmptyText]
    /\ guard_call = [op |-> None, text |-> EmptyText, name |-> None, value |-> 0,
                     again |-> FALSE, human |-> [var \in {"v", "w"} |-> 0]]
    /\ loaded = <<>>
    /\ checked = [op |-> None, plan |-> <<>>, is_valid |-> TRUE, issues |-> <<>>]
    /\ emitted = [op |-> None, only_dirty |-> FALSE, selected_parts |-> <<>>,
                  empty |-> TRUE, blocks |-> <<>>, assembly |-> <<>>]

\* what a cancelled operation must leave alone: the code, the model path,
\* the plan and the part graph
Session(code, model_path, items, p, o, a, r) ==
    [code |-> code, model_path |-> model_path, plan |-> items,
     parts |-> p, order |-> o, adj |-> a, rev |-> r]

NoSession == Session(EmptyText, "", <<>>, <<>>, <<>>, <<>>, <<>>)

\* WorkerThread.__init__: no worker; pc is the place of GenerationWorker.run,
\* before the session as it was when the operation started
NoWorker ==
    [pc |-> "none", is_cancelled |-> FALSE, new_code |-> EmptyText,
     model_path |-> "", before |-> NoSession]

\* CADWindow before any render: no process, nothing in the queue, no timer
NoRender ==
    [process |-> "none", result |-> "none", timer |-> FALSE, code |-> EmptyText,
     model_path |-> "", cancelled |-> FALSE, before |-> NoSession]

\* CADController.__init__ (controller.py:52-57) and FullGenerator.__init__
JobIdle ==
    /\ current_model_path = "" /\ current_plan = <<>> /\ is_busy = FALSE
    /\ generator_last_plan = <<>> /\ worker = NoWorker /\ render = NoRender

\* a script handed to the renderer: what its statements do when executed
\* (build a box or a ball and bind it to the name compound, bind none of the
\* exported names, raise, or fail to compile), whether it starts with the
\* import lines of the toolkit, and whether its quotes are typographic
Script(body, imports, curly) == [body |-> body, imports |-> imports, curly |-> curly]

NoScript == Script(None, FALSE, FALSE)

\* a thread of the application: where it is in render_code and in
\* _get_preloaded_globals, the script and the flags of its render call, the
\* local exec_globals
NoThread ==
    [pc |-> "none", code |-> NoScript, use_cache |-> FALSE, preview_mode |-> FALSE,
     exec_globals |-> {}]

\* no render call has returned
NoRendered ==
    [op |-> None, code |-> NoScript, use_cache |-> FALSE, preview_mode |-> FALSE,
     success |-> FALSE, path |-> None, error |-> None, hit |-> FALSE,
     exported |-> FALSE, exec_globals |-> {}]

\* the renderer module as imported (renderer.py:24, 27), an output directory
\* without model files, no thread started
RendererInit ==
    /\ CODE_CACHE = <<>> /\ PRELOADED_GLOBALS = Absent /\ model_files = <<>>
    /\ threads = [t \in {"preload", "render"} |-> NoThread]
    /\ rendered = NoRendered

\* the renderer while another component is exercised
RenderIdle == RendererInit /\ toolkit = TRUE

\* the guard, the validator and the emitter while another component is
\* exercised (CADController.__init__: _current_code = "")
CoreInit == GuardInit /\ current_code = EmptyText /\ NoCoreCall /\ JobIdle

CoreIdle == CoreInit /\ RenderIdle

Queries == {"topological_sort", "get_affected_parts", "get_dependencies", "validate"}

\* a call: the method, its argument and what it returned: the list of
\* topological_sort, the issues of validate, the bag of names a dfs collected
\* and, for remove_part, whether the name was a part and whether the call
\* left the graph as it was
Call(op, arg) ==
    [op |-> op, arg |-> arg, value |-> <<>>, issues |-> <<>>,
     collected |-> [n \in Names |-> 0], was_part |-> FALSE, same |-> FALSE,
     had_content |-> FALSE]

\* PartGraph.__init__
GraphInit ==
    /\ parts = <<>> /\ order = <<>> /\ adj_list = <<>> /\ rev_adj_list = <<>>
    /\ raised = None /\ returned = Call(None, None) /\ ops = 0

SetGraph(g, exc) ==
    /\ parts' = g.parts
    /\ order' = g.order
    /\ adj_list' = g.adj
    /\ rev_adj_list' = g.rev
    /\ raised' = exc

\* The next call is a mutator: no exception has escaped (PartGraph catches
\* none and the run ends there), no query was asked yet, and fewer than n
\* calls were made.
MayMutate(n) == raised = None /\ returned.op \notin Queries /\ ops < n

\* The next call is the query asked of the graph the mutators built.
MayQuery == raised = None /\ returned.op \notin Queries

AddPartWithin(n) ==
    /\ MayMutate(n)
    /\ \E name \in Names, deps \in DepLists :
          /\ SetGraph(add_part(Self, name, deps), None)
          /\ returned' = Call("add_part", name)
    /\ ops' = ops + 1
    /\ UNCHANGED <<wf_vars, render_vars, core_vars>>

RemovePartWithin(n) ==
    /\ MayMutate(n)
    /\ \E name \in Names :
          LET out == remove_part(Self, name)
          IN  /\ SetGraph(out.graph, out.exc)
              /\ returned' = [Call("remove_part", name) EXCEPT
                                 !.was_part = name \in DOMAIN parts,
                                 !.same = out.graph = Self]
    /\ ops' = ops + 1
    /\ UNCHANGED <<wf_vars, render_vars, core_vars>>

\* from_plan discards the earlier content (part_graph.py:195-197), so it
\* reaches the same graphs whenever it is called; the model calls it on the
\* new object
FromPlanWithin(n) ==
    /\ MayMutate(n) /\ ops = 0
    /\ \E items \in Plans :
          /\ SetGraph(from_plan(items), None)
          /\ returned' = Call("from_plan", None)
    /\ ops' = ops + 1
    /\ UNCHANGED <<wf_vars, render_vars, core_vars>>

AddPart == AddPartWithin(MaxOps)

RemovePart == RemovePartWithin(MaxOps)

FromPlan == FromPlanWithin(MaxOps)

TopologicalSort ==
    /\ MayQuery
    /\ \E result \in topological_sort(Self) :
          /\ SetGraph(AfterSort(Self, result), None)
          /\ returned' = [Call("topological_sort", None) EXCEPT !.value = result]
    /\ UNCHANGED <<ops, wf_vars, render_vars, core_vars>>

GetAffectedParts ==
    /\ MayQuery
    /\ \E name \in Names :
          LET out == get_affected_parts(Self, name)
          IN  /\ SetGraph(out.graph, None)
              /\ returned' = [Call("get_affected_parts", name) EXCEPT
                                 !.collected = out.value]
    /\ UNCHANGED <<ops, wf_vars, render_vars, core_vars>>

GetDependencies ==
    /\ MayQuery
    /\ \E name \in Names :
          LET out == get_dependencies(Self, name)
          IN  /\ SetGraph(out.graph, None)
              /\ returned' = [Call("get_dependencies", name) EXCEPT
                                 !.collected = out.value]
    /\ UNCHANGED <<ops, wf_vars, render_vars, core_vars>>

Validate ==
    /\ MayQuery
    /\ LET out == validate(Self)
       IN  /\ SetGraph(out.graph, None)
           /\ returned' = [Call("validate", None) EXCEPT !.issues = out.value]
    /\ UNCHANGED <<ops, wf_vars, render_vars, core_vars>>

GraphInitAll == GraphInit /\ WfIdle /\ CoreIdle

GraphNext ==
    \/ AddPart
    \/ RemovePart
    \/ FromPlan
    \/ TopologicalSort
    \/ GetAffectedParts
    \/ GetDependencies
    \/ Validate

\* a PartGraph built by add_part, remove_part and from_plan calls and then
\* asked one query
SpecGraph == GraphInitAll /\ [][GraphNext]_vars

\* add_part(Part(name, dependencies=deps)) for a name that is no part yet
AddNew ==
    /\ raised = None /\ returned.op \notin Queries
    /\ \E name \in Names \ DOMAIN parts, deps \in DepLists :
          /\ SetGraph(add_part(Self, name, deps), None)
          /\ returned' = Call("add_part", name)
    /\ ops' = ops + 1
    /\ UNCHANGED <<wf_vars, render_vars, core_vars>>

OrderNext ==
    \/ AddNew
    \/ TopologicalSort
    \/ GetAffectedParts
    \/ GetDependencies
    \/ Validate

\* parts of different names are added in any order and one query is asked
SpecOrder == GraphInitAll /\ [][OrderNext]_vars

AddPartLong == AddPartWithin(MaxSortOps)

RemovePartLong == RemovePartWithin(MaxSortOps)

FromPlanLong == FromPlanWithin(MaxSortOps)

SortNext == AddPartLong \/ RemovePartLong \/ FromPlanLong \/ TopologicalSort

\* longer call sequences, asked for the topological order only
SpecSort == GraphInitAll /\ [][SortNext]_vars

(***************************************************************************)
(* The life of the parts of a PartGraph: plans are loaded over earlier     *)
(* content, parts are locked, marked and given code.                       *)
(***************************************************************************)
MaxPartOps == 4             \* number of calls on one object in SpecParts
MaxReloadOps == 3           \* calls before a plan is loaded over the content
MaxRemoveOps == 3           \* calls on a graph that parts are removed from

Codes == {"c1", "c2"}       \* code fragments a part is given

\* g with field f of part name set by change(_), when name is a part
WithPart(g, name, change(_)) ==
    IF name \notin DOMAIN g.parts THEN g
    ELSE Graph([g.parts EXCEPT ![name] = change(@)], g.order, g.adj, g.rev)

\* a mark_dirty that cascades: the parts with an edge to name get the flag too
mark_dirty_cascading(g, name) ==
    IF name \notin DOMAIN g.parts THEN g
    ELSE Graph([n \in DOMAIN g.parts |->
                   IF n = name \/ name \in DefaultGet(g.adj, n)
                   THEN [g.parts[n] EXCEPT !.is_dirty = TRUE] ELSE g.parts[n]],
               g.order, g.adj, g.rev)

\* PartGraph.mark_dirty / mark_clean
mark_dirty(g, name) == WithPart(g, name, LAMBDA p : [p EXCEPT !.is_dirty = TRUE])

mark_clean(g, name) == WithPart(g, name, LAMBDA p : [p EXCEPT !.is_dirty = FALSE])

\* PartGraph.lock_part / unlock_part
lock_part(g, name) == WithPart(g, name, LAMBDA p : [p EXCEPT !.is_locked = TRUE])

unlock_part(g, name) == WithPart(g, name, LAMBDA p : [p EXCEPT !.is_locked = FALSE])

\* PartGraph.update_part(name, code=code)
update_part(g, name, code) ==
    WithPart(g, name, LAMBDA p : [p EXCEPT !.code = code, !.is_dirty = TRUE])

\* CodeEmitter.update_part_code(graph, part_name, new_code)
update_part_code(g, part_name, new_code) ==
    WithPart(g, part_name, LAMBDA p : [p EXCEPT !.code = new_code, !.is_dirty = FALSE])

\* a from_plan that keeps what the graph held
Kept(g) == g

\* the three clear() calls of from_plan
Cleared(g) == EmptyGraph

\* from_plan on a graph with content: clear, then add the items in order
reload(g, items) == AddItems(Cleared(g), items, 1)

\* the next call is one of at most n; a run ends with the plan that is
\* loaded over earlier content
MayCall(n) ==
    /\ raised = None /\ ops < n /\ (returned.op = "from_plan" => ops = 1)
    /\ emitted.op = None

\* some part of g is locked, dirty and has code
HasContent(g) ==
    \E n \in DOMAIN g.parts :
        g.parts[n].is_locked /\ g.parts[n].is_dirty /\ g.parts[n].code # ""

\* from_plan(items) on the graph as it is
LoadPlan ==
    /\ raised = None /\ (returned.op = "from_plan" => ops = 1)
    /\ \E items \in Plans :
          LET g == reload(Self, items)
          IN  /\ SetGraph(g, None)
              /\ loaded' = items
              /\ returned' = [Call("from_plan", None) EXCEPT
                                 !.same = (g = Self),
                                 !.had_content = HasContent(Self)]
    /\ ops' = ops + 1
    /\ UNCHANGED <<wf_vars, render_vars, job_vars, original_code, user_edits, protected_regions,
                   protected_variables, current_code, merged, guard_call,
                   checked, emitted>>

\* a call op(name) that changes a part, result being the graph it leaves
PartCall(n, op, result(_)) ==
    /\ MayCall(n)
    /\ \E name \in Names :
          /\ SetGraph(result(name), None)
          /\ returned' = [Call(op, name) EXCEPT !.was_part = name \in DOMAIN parts]
    /\ ops' = ops + 1
    /\ UNCHANGED <<wf_vars, render_vars, core_vars>>

FirstPlan == ops = 0 /\ LoadPlan

LockPart == PartCall(MaxPartOps, "lock_part", LAMBDA name : lock_part(Self, name))

UnlockPart == PartCall(MaxPartOps, "unlock_part", LAMBDA name : unlock_part(Self, name))

MarkDirty == PartCall(MaxPartOps, "mark_dirty", LAMBDA name : mark_dirty(Self, name))

MarkClean == PartCall(MaxPartOps, "mark_clean", LAMBDA name : mark_clean(Self, name))

UpdatePart ==
    \E code \in Codes :
        PartCall(MaxPartOps, "update_part", LAMBDA name : update_part(Self, name, code))

UpdatePartCode ==
    \E code \in Codes :
        PartCall(MaxPartOps, "update_part_code",
                 LAMBDA name : update_part_code(Self, name, code))

PartsNext ==
    \/ FirstPlan
    \/ LockPart
    \/ UnlockPart
    \/ MarkDirty
    \/ MarkClean
    \/ UpdatePart
    \/ UpdatePartCode

\* a graph loaded from a plan, its parts then locked, marked and given code
SpecParts == GraphInitAll /\ [][PartsNext]_vars

LockEarlier == PartCall(MaxReloadOps, "lock_part", LAMBDA name : lock_part(Self, name))

UpdateEarlier ==
    \E code \in Codes :
        PartCall(MaxReloadOps, "update_part", LAMBDA name : update_part(Self, name, code))

ReloadNext == LoadPlan \/ LockEarlier \/ UpdateEarlier

\* a graph that is given content and then loaded from another plan
SpecReload == GraphInitAll /\ [][ReloadNext]_vars

RemoveLoaded == RemovePartWithin(MaxRemoveOps)

RemoveNext == FirstPlan \/ RemoveLoaded

\* a graph that is loaded from a plan and then loses parts
SpecRemove == GraphInitAll /\ [][RemoveNext]_vars

(***************************************************************************)
(* The workflow of src/CAD: a LangGraph StateGraph over AgentState with    *)
(* the nodes planner, processors, generator and inspector.  A node returns *)
(* a partial state that overwrites the keys it names; an exception that    *)
(* escapes a node ends app.stream (main.py:27-41).                         *)
(***************************************************************************)
Ceiling == 3                \* the iteration ceiling of inspect and should_continue

MaxStructure == 2           \* longest structure list of a plan
MaxResponse == 2            \* longest inspector response, in words

PartIds == {"p1", "p2"}
Layers == {"loop", "profile", "solid", "other"}

\* an item of plan["structure"]: item['id'], item.get("layer")
Items == [id : PartIds, layer : Layers]

Structures == SeqsUpTo(Items, MaxStructure)

\* a plan dict: its keys and the lists under "structure" and "parts" (empty
\* under a key it does not have)
Dict(keys, st, ps) == [keys |-> keys, structure |-> st, parts |-> ps]

\* the dicts json.loads may hand to the planner: {} and dicts with a
\* "structure" or a "parts" list
PlanDicts ==
    {Dict({}, <<>>, <<>>)}
        \cup {Dict({"structure"}, st, <<>>) : st \in Structures}
        \cup {Dict({"parts"}, <<>>, st) : st \in Structures}

\* what the planning service answers: the call raises, the text does not
\* parse to a dict, or it parses to d
PlannerResponses ==
    {[kind |-> "raise", dict |-> Dict({}, <<>>, <<>>)],
     [kind |-> "unparseable", dict |-> Dict({}, <<>>, <<>>)]}
        \cup {[kind |-> "plan", dict |-> d] : d \in PlanDicts}

\* planner.py:116-118: plan["parts"] = plan["structure"] when only the
\* latter is there
WithParts(d) ==
    IF "structure" \in d.keys /\ "parts" \notin d.keys
    THEN Dict(d.keys \cup {"parts"}, d.structure, d.structure)
    ELSE d

\* Python truth of state.get("plan")
Truthy(p) == ~p.is_none /\ p.value.keys # {}

\* plan.get("structure", plan.get("parts", []))
StructureOf(d) ==
    IF "structure" \in d.keys THEN d.structure
    ELSE IF "parts" \in d.keys THEN d.parts ELSE <<>>

\* a step of the history: the node and how it ended; then the feedback a
\* planner was given, how the part-code service behaved for each item of a
\* processing step, the response an inspection was given
Ran(n, outcome) ==
    [node |-> n, outcome |-> outcome, feedback |-> Absent, gen |-> <<>>,
     response |-> <<>>]

\* an exception escapes the node: LangGraph re-raises it and the run ends
Crash(entry) ==
    /\ node' = "crashed"
    /\ escaped' = entry.outcome
    /\ ran' = Append(ran, entry)

\* PlannerAgent.plan behind planner_step
PlannerStep ==
    /\ node = "planner"
    /\ \E response \in PlannerResponses :
          IF response.kind = "raise"
          THEN /\ Crash([Ran("planner", "ServiceError") EXCEPT
                           !.feedback = inspector_feedback])
               /\ UNCHANGED <<plan, iteration_count, messages>>
          ELSE IF response.kind = "unparseable"
          THEN /\ messages' = <<"Planner Error">>
               /\ node' = "processors"
               /\ ran' = Append(ran, [Ran("planner", "parse_error") EXCEPT
                                      !.feedback = inspector_feedback])
               /\ UNCHANGED <<plan, iteration_count, escaped>>
          ELSE /\ plan' = Some(WithParts(response.dict))
               /\ iteration_count' = iteration_count + 1
               /\ messages' = <<"Planner Thought", "Planner: Generated plan">>
               /\ node' = "processors"
               /\ ran' = Append(ran, [Ran("planner", "ok") EXCEPT
                                      !.feedback = inspector_feedback])
               /\ UNCHANGED escaped
    /\ UNCHANGED <<worker_outputs, full_code, inspector_feedback, anchor_registry,
                   debug_metadata, status, graph_vars, core_vars, render_vars>>

\* processing_step assigns anchor_registry and debug_metadata (graph.py:31-32)
\* and never the name outputs it stores into; the module binds it neither
OutputsBound == FALSE

\* the code fragment an agent returns for an item, and the failure marker
Fragment(item) ==
    IF item.layer = "other" THEN [kind |-> "empty", id |-> item.id]
    ELSE [kind |-> "code", id |-> item.id]

ErrorMarker(item) == [kind |-> "error", id |-> item.id]

\* outputs[item['id']] = value: a NameError while outputs is unbound
Store(loc, item, value) ==
    IF OutputsBound
    THEN [loc EXCEPT !.outputs = DictSet(@, item.id, value)]
    ELSE [loc EXCEPT !.exc = "NameError"]

\* how the part-code service behaves for one item: it answers with code and
\* metadata, with code alone, or the call raises
GenOutcomes == {"ok", "bare", "raise"}

\* the try block of the loop body for one item; SolidAgent.generate makes no
\* call for a layer that is not "solid" (solid_agent.py:24-25)
TryItem(loc, item, gen) ==
    IF gen = "raise" /\ item.layer # "other"
    THEN [loc EXCEPT !.exc = "ServiceError"]
    ELSE LET stored == Store(loc, item, Fragment(item))
         IN  IF stored.exc # None \/ item.layer # "solid" \/ gen = "bare" THEN stored
             ELSE [stored EXCEPT !.anchor_registry = DictSet(@, item.id, "anchors"),
                                 !.debug_metadata = DictSet(@, item.id, "bounding_box")]

\* the loop body with its except clause (graph.py:64-66): the handler stores
\* the marker, and an exception of the handler escapes
LoopBody(loc, item, gen) ==
    LET tried == TryItem(loc, item, gen)
    IN  IF tried.exc = None THEN tried
        ELSE Store([loc EXCEPT !.exc = None], item, ErrorMarker(item))

\* the for loop of processing_step from item i, left at the first exception
\* that escapes
RECURSIVE LoopFrom(_, _, _, _)
LoopFrom(loc, structure, gen, i) ==
    IF i > Len(structure) \/ loc.exc # None THEN loc
    ELSE LoopFrom(LoopBody(loc, structure[i], gen[i]), structure, gen, i + 1)

\* processing_step for a plan that is there: the loop and the return
\* statement, which reads outputs once more
processing_step(structure, gen) ==
    LET loc == LoopFrom([outputs |-> <<>>, anchor_registry |-> <<>>,
                         debug_metadata |-> <<>>, exc |-> None], structure, gen, 1)
    IN  IF loc.exc = None /\ ~OutputsBound THEN [loc EXCEPT !.exc = "NameError"]
        ELSE loc

ProcessingStep ==
    /\ node = "processors"
    /\ IF ~Truthy(plan)
       THEN /\ messages' = <<"Error: No plan found">>
            /\ node' = "generator"
            /\ ran' = Append(ran, Ran("processors", "no_plan"))
            /\ UNCHANGED <<worker_outputs, anchor_registry, debug_metadata, escaped>>
       ELSE LET structure == StructureOf(plan.value)
            IN  \E gen \in [DOMAIN structure -> GenOutcomes] :
                   LET loc == processing_step(structure, gen)
                   IN  IF loc.exc # None
                       THEN /\ Crash([Ran("processors", loc.exc) EXCEPT !.gen = gen])
                            /\ UNCHANGED <<worker_outputs, anchor_registry,
                                           debug_metadata, messages>>
                       ELSE /\ worker_outputs' = Some(loc.outputs)
                            /\ anchor_registry' = Some(loc.anchor_registry)
                            /\ debug_metadata' = Some(loc.debug_metadata)
                            /\ node' = "generator"
                            /\ ran' = Append(ran, [Ran("processors", "ok") EXCEPT !.gen = gen])
                            /\ UNCHANGED <<messages, escaped>>
    /\ UNCHANGED <<plan, full_code, inspector_feedback, iteration_count, status,
                   graph_vars, core_vars, render_vars>>

\* generator.py imports ChatOpenAI, the message classes and AgentState, and
\* calls json.dumps (generator.py:45)
GeneratorImportsJson == FALSE

\* GeneratorAgent.assemble behind generator_step: the exception it raises,
\* None when it returns
assemble(p, outputs) ==
    IF p.is_none THEN "AttributeError"            \* plan.get on None
    ELSE IF ~GeneratorImportsJson THEN "NameError" \* json.dumps
    ELSE IF outputs.is_none THEN "AttributeError"  \* worker_outputs.items()
    ELSE None

GeneratorStep ==
    /\ node = "generator"
    /\ LET exc == assemble(plan, worker_outputs)
       IN  IF exc # None
           THEN /\ Crash(Ran("generator", exc))
                /\ UNCHANGED <<full_code, messages>>
           ELSE /\ full_code' = Some("model.scad")
                /\ messages' = <<"Generator: SCAD code generated">>
                /\ node' = "inspector"
                /\ ran' = Append(ran, Ran("generator", "ok"))
                /\ UNCHANGED escaped
    /\ UNCHANGED <<plan, worker_outputs, inspector_feedback, iteration_count,
                   anchor_registry, debug_metadata, status, graph_vars, core_vars, render_vars>>

\* main.py:19-23 and set_entry_point("planner")
WfInit ==
    /\ node = "planner" /\ plan = Absent /\ worker_outputs = Absent
    /\ full_code = Absent /\ inspector_feedback = Absent
    /\ iteration_count = 0 /\ messages = <<>> /\ escaped = None
    /\ anchor_registry = Absent /\ debug_metadata = Absent
    /\ ran = <<>> /\ status = None

Init == WfInit /\ GraphInit /\ CoreIdle

\* The inspector node is not among the steps: it runs after generator_step
\* returns, and assemble raises on every state that reaches it.
Next == PlannerStep \/ ProcessingStep \/ GeneratorStep

Spec == Init /\ [][Next]_vars

(***************************************************************************)
(* The verdict of InspectorAgent.inspect (inspector.py:57-72) and the      *)
(* conditional edge should_continue (graph.py:80-91), as functions of the  *)
(* service's response and the iteration counter.  A text is a sequence of  *)
(* words; "x in text" is membership and upper() maps word by word.         *)
(***************************************************************************)
Words == {"PASS", "pass", "FAIL", "fail", "ok"}

Responses == SeqsUpTo(Words, MaxResponse)

ForcedNote == "(forced)"    \* " (已达到最大迭代次数，强制通过)"

\* str.upper()
Upper(text) ==
    [k \in DOMAIN text |->
        CASE text[k] = "pass" -> "PASS"
          [] text[k] = "fail" -> "FAIL"
          [] text[k] = "ok" -> "OK"
          [] OTHER -> text[k]]

Contains(text, word) == word \in Range(text)

\* inspector.py:60-67: the status and the feedback text
inspect(feedback_text, iteration) ==
    LET answered == IF Contains(Upper(feedback_text), "PASS")
                       /\ ~Contains(Upper(feedback_text), "FAIL")
                    THEN "PASS" ELSE "FAIL"
    IN  IF iteration >= Ceiling
        THEN [status |-> "PASS", feedback |-> Append(feedback_text, ForcedNote)]
        ELSE [status |-> answered, feedback |-> feedback_text]

\* graph.py:80-91
should_continue(feedback, iteration) ==
    IF Contains(feedback, "PASS") /\ ~Contains(feedback, "FAIL") THEN "END"
    ELSE IF iteration >= Ceiling THEN "END"
    ELSE "planner"

\* an inspection about to give its verdict, for every value of
\* state["iteration_count"] up to the ceiling
VerdictInit ==
    /\ node = "inspector" /\ iteration_count \in 0..Ceiling
    /\ plan = Absent /\ worker_outputs = Absent
    /\ full_code = Absent /\ inspector_feedback = Absent
    /\ messages = <<>> /\ escaped = None
    /\ anchor_registry = Absent /\ debug_metadata = Absent
    /\ ran = <<>> /\ status = None
    /\ GraphInit /\ CoreIdle

\* the verdict of one inspection and the edge taken after it
InspectorVerdict ==
    /\ node = "inspector"
    /\ \E response \in Responses :
          LET out == inspect(response, iteration_count)
          IN  /\ status' = out.status
              /\ inspector_feedback' = Some(out.feedback)
              /\ messages' = <<"Inspector: " \o out.status>>
              /\ node' = should_continue(out.feedback, iteration_count)
              /\ ran' = Append(ran, [Ran("inspector", "ok") EXCEPT !.response = response])
    /\ UNCHANGED <<plan, worker_outputs, full_code, iteration_count, escaped,
                   anchor_registry, debug_metadata, graph_vars, core_vars, render_vars>>

SpecVerdict == VerdictInit /\ [][InspectorVerdict]_vars

(***************************************************************************)
(* Properties of PartGraph.                                                *)
(***************************************************************************)
\* every name on the list / in the bag a query returned
Listed == IF returned.op = "topological_sort" THEN Range(returned.value)
          ELSE {n \in Names : returned.collected[n] > 0}

\* what a part depends on: its declared dependencies and its edges
DependsOn(n) ==
    DefaultGet(adj_list, n)
        \cup (IF n \in DOMAIN parts THEN Range(parts[n].dependencies) ELSE {})

\* the names reached from the set S in one or more steps of next(_)
ReachedFrom(next(_), S) ==
    LET step[k \in 0..Cardinality(Names)] ==
            IF k = 0 THEN UNION {next(n) : n \in S}
            ELSE step[k - 1] \cup UNION {next(n) : n \in step[k - 1]}
    IN  step[Cardinality(Names)]

\* n is on a dependency cycle, or depends on a part that is
CycleBound(n) ==
    LET below == ReachedFrom(DependsOn, {n}) \cup {n}
    IN  \E m \in below : m \in ReachedFrom(DependsOn, {m})

\* C6: topological_sort returns only names of parts of the graph, returns no
\* name twice, and never lists a part before a part it depends on.
C6_Original ==
    returned.op = "topological_sort" =>
        LET r == returned.value
        IN  /\ Range(r) \subseteq DOMAIN parts
            /\ \A i, j \in DOMAIN r : i # j => r[i] # r[j]
            /\ \A i, j \in DOMAIN r :
                  i < j => r[j] \notin Range(parts[r[i]].dependencies)

\* C7: topological_sort contains every part that is neither on a dependency
\* cycle nor transitively dependent on one; when validate() reports no issue
\* it contains every part of the graph.
C7_Original ==
    returned.op = "topological_sort" =>
        /\ \A n \in DOMAIN parts : ~CycleBound(n) => n \in Listed
        /\ validate(Self).value = <<>> => Listed = DOMAIN parts

\* C8: remove_part(name) completes without error; when name was a part,
\* after it name is no part, no part lists name in its dependencies or
\* dependents, and no dependency edge starts or ends at name; when name was
\* no part the call changes nothing.
C8_Original ==
    returned.op = "remove_part" =>
        LET name == returned.arg
        IN  /\ raised = None
            /\ ~returned.was_part => returned.same
            /\ returned.was_part =>
                  /\ name \notin DOMAIN parts
                  /\ \A n \in DOMAIN parts :
                        /\ name \notin Range(parts[n].dependencies)
                        /\ name \notin Range(parts[n].dependents)
                  /\ \A n \in Names :
                        /\ name \notin DefaultGet(adj_list, n)
                        /\ name \notin DefaultGet(rev_adj_list, n)
                  /\ DefaultGet(adj_list, name) = {}
                  /\ DefaultGet(rev_adj_list, name) = {}

\* C9: get_affected_parts(P), for a part P, returns exactly the parts that
\* depend on P directly or transitively, and never P itself.
C9_Original ==
    (returned.op = "get_affected_parts" /\ returned.arg \in DOMAIN parts) =>
        LET P == returned.arg
            dependents(n) == DefaultGet(rev_adj_list, n)
        IN  /\ Listed = ReachedFrom(dependents, {P}) \cap DOMAIN parts
            /\ P \notin Listed

(***************************************************************************)
(* Properties of validate.                                                 *)
(***************************************************************************)
\* the dependency edges of a graph: adj_list, an absent key being no edge
EdgesOf(d) == [n \in Names |-> DefaultGet(d, n)]

\* C10: a validate() call returns a circular issue for every part that
\* reaches itself through dependency edges and a missing issue for every
\* declared dependency that is no part of the graph, returns the empty list
\* when the graph has neither, and leaves the parts with their flags and
\* lists, their order and the edges of both directions as they were.
C10_ValidateReports ==
    [][returned'.op = "validate" =>
          LET issues == Range(returned'.issues)
              edges(n) == DefaultGet(adj_list, n)
              cyclic == {n \in DOMAIN parts : n \in ReachedFrom(edges, {n})}
              dangling == {nd \in (DOMAIN parts) \X Names :
                              /\ nd[2] \in Range(parts[nd[1]].dependencies)
                              /\ nd[2] \notin DOMAIN parts}
          IN  /\ \A n \in cyclic :
                    [kind |-> "circular", part |-> n, dep |-> None] \in issues
              /\ \A nd \in dangling :
                    [kind |-> "missing", part |-> nd[1], dep |-> nd[2]] \in issues
              /\ (cyclic = {} /\ dangling = {}) => returned'.issues = <<>>
              /\ parts' = parts /\ order' = order
              /\ EdgesOf(adj_list') = EdgesOf(adj_list)
              /\ EdgesOf(rev_adj_list') = EdgesOf(rev_adj_list)
              /\ raised' = None]_vars

\* validate() answered for a graph with a cycle and a dangling dependency
C10_Witness ==
    /\ returned.op = "validate"
    /\ \E i, j \in Range(returned.issues) : i.kind = "circular" /\ j.kind = "missing"

(***************************************************************************)
(* CodeEmitter.emit: the artifact as the names of its labelled blocks, in  *)
(* the order of the text, and the names of its assembly line.              *)
(***************************************************************************)
MaxSelected == 2            \* length of selected_parts
MaxEmitOps == 3             \* calls on the graph before emit

Selections == SeqsUpTo(Names, MaxSelected)

\* PartGraph.get_dirty_parts()
get_dirty_parts(g) == SelectSeq(g.order, LAMBDA n : g.parts[n].is_dirty)

\* CodeEmitter._get_parts_to_generate; None and [] are both false, a
\* selection of no names stands for either
get_parts_to_generate(g, only_dirty, selected_parts) ==
    IF selected_parts # <<>>
    THEN SelectSeq(selected_parts, LAMBDA p : p \in DOMAIN g.parts)
    ELSE IF only_dirty THEN get_dirty_parts(g)
    ELSE g.order

\* the artifact of emit for one result of topological_sort
Artifact(g, only_dirty, selected_parts, sorted_order) ==
    LET first == get_parts_to_generate(g, only_dirty, selected_parts)
        parts_to_generate == SelectSeq(sorted_order, LAMBDA p : p \in Range(first))
    IN  IF first = <<>>
        THEN [empty |-> TRUE, blocks |-> <<>>, assembly |-> <<>>]
        ELSE [empty |-> FALSE,
              blocks |-> SelectSeq(parts_to_generate, LAMBDA p : g.parts[p].code # ""),
              assembly |-> parts_to_generate]

\* CodeEmitter.emit(graph, only_dirty, selected_parts)
Emit ==
    /\ raised = None /\ ops > 0 /\ emitted.op = None
    /\ \E only_dirty \in BOOLEAN, selected_parts \in Selections :
          IF get_parts_to_generate(Self, only_dirty, selected_parts) = <<>>
          THEN /\ emitted' = [op |-> "emit", only_dirty |-> only_dirty,
                              selected_parts |-> selected_parts, empty |-> TRUE,
                              blocks |-> <<>>, assembly |-> <<>>]
               /\ UNCHANGED graph_vars
          ELSE \E sorted_order \in topological_sort(Self) :
                  LET out == Artifact(Self, only_dirty, selected_parts, sorted_order)
                  IN  /\ emitted' = [op |-> "emit", only_dirty |-> only_dirty,
                                     selected_parts |-> selected_parts,
                                     empty |-> out.empty, blocks |-> out.blocks,
                                     assembly |-> out.assembly]
                      /\ SetGraph(AfterSort(Self, sorted_order), None)
                      /\ UNCHANGED <<returned, ops>>
    /\ UNCHANGED <<wf_vars, render_vars, job_vars, original_code, user_edits, protected_regions,
                   protected_variables, current_code, merged, guard_call,
                   loaded, checked>>

CodeBefore ==
    \E code \in Codes :
        PartCall(MaxEmitOps, "update_part_code",
                 LAMBDA name : update_part_code(Self, name, code))

DirtyBefore == PartCall(MaxEmitOps, "mark_dirty", LAMBDA name : mark_dirty(Self, name))

EmitNext == FirstPlan \/ CodeBefore \/ DirtyBefore \/ Emit

\* a graph loaded from a plan, given code and dirty marks, and emitted
SpecEmit == GraphInitAll /\ [][EmitNext]_vars

(***************************************************************************)
(* DiffGuard and the handlers of CADController that call it.  A text is    *)
(* the list str.splitlines() makes of it and whether it ends in a line     *)
(* break; a line is the variable and the number of a parameter assignment  *)
(* or some other line.  user_edits is a dict: its entries in the order     *)
(* their keys were first assigned.                                         *)
(***************************************************************************)
MaxLines == 2               \* lines of a text
MaxGuardOps == 3            \* calls before merge_code
MaxGuardPlanLen == 0        \* items of generator.last_plan

Vars == {"v", "w"}

\* "{var} = {value}", a line _is_parameter_line matches
Assign(var, value) == [var |-> var, value |-> value]

\* a line that is no assignment of a number
Other == [var |-> None, value |-> "f()"]

Lines == {Assign("v", "1"), Assign("v", "2.0"), Assign("w", "1"), Other}

\* the texts of at most MaxLines lines; one without lines has no line break
Texts(nls) == {Text(l, nl) : l \in SeqsUpTo(Lines, MaxLines), nl \in nls}
                 \ {Text(<<>>, TRUE)}

\* the values updateParameter receives, and str() of each
Floats == {1, 2}

Repr(value) == IF value = 1 THEN "1.0" ELSE "2.0"

\* the number a literal denotes
NumberOf(literal) == IF literal \in {"1", "1.0"} THEN 1 ELSE 2

\* DiffGuard._is_parameter_line
is_parameter_line(line) == line.var # None

\* re.match of the pattern _protect_variables builds for var_name
IsAssignmentOf(var_name, line) == line.var = var_name

\* the positions of b that SequenceMatcher(None, a, b) matches within
\* a[alo..ahi] and b[blo..bhi]: the longest common block, the earliest in a
\* and then in b among the longest, and the matches left and right of it
RECURSIVE Matching(_, _, _, _, _, _)
Matching(a, b, alo, ahi, blo, bhi) ==
    LET blocks == {c \in (alo..ahi) \X (blo..bhi) \X (1..Len(b)) :
                      /\ c[1] + c[3] - 1 <= ahi
                      /\ c[2] + c[3] - 1 <= bhi
                      /\ \A d \in 0..(c[3] - 1) : a[c[1] + d] = b[c[2] + d]}
    IN  IF blocks = {} THEN {}
        ELSE LET best == CHOOSE c \in blocks : \A o \in blocks :
                             \/ c[3] > o[3]
                             \/ c[3] = o[3] /\ c[1] < o[1]
                             \/ c[3] = o[3] /\ c[1] = o[1] /\ c[2] <= o[2]
             IN  Matching(a, b, alo, best[1] - 1, blo, best[2] - 1)
                    \cup (best[2]..(best[2] + best[3] - 1))
                    \cup Matching(a, b, best[1] + best[3], ahi, best[2] + best[3], bhi)

\* edits[line_num] = content, as a list that takes every assignment
EditAppend(edits, line_num, content) ==
    Append(edits, [line |-> line_num, content |-> content])

\* self.user_edits[line_num] = content
EditPut(edits, line_num, content) ==
    IF \E i \in DOMAIN edits : edits[i].line = line_num
    THEN [i \in DOMAIN edits |->
             IF edits[i].line = line_num
             THEN [line |-> line_num, content |-> content] ELSE edits[i]]
    ELSE Append(edits, [line |-> line_num, content |-> content])

\* the loop of track_edit over the diff: the lines of edited_lines that
\* Differ gives as "+ " are those outside the matching, and line_num counts
\* the lines of edited_lines from 0
RECURSIVE TrackFrom(_, _, _, _)
TrackFrom(edits, edited_lines, matched, j) ==
    IF j > Len(edited_lines) THEN edits
    ELSE TrackFrom(IF j \in matched THEN edits
                   ELSE EditPut(edits, j - 1, edited_lines[j]),
                   edited_lines, matched, j + 1)

\* the keys of user_edits, sorted
SortedLines(edits) ==
    LET keys == {edits[i].line : i \in DOMAIN edits}
    IN  CHOOSE s \in Perms(keys) : \A i, j \in DOMAIN s : i < j => s[i] < s[j]

\* the loop of _update_protected_regions over sorted_lines[1:]
RECURSIVE Regions(_, _, _, _, _)
Regions(sorted_lines, i, start, end, regions) ==
    IF i > Len(sorted_lines)
    THEN Append(regions, [start |-> start, end |-> end])
    ELSE IF sorted_lines[i] <= end + 2
         THEN Regions(sorted_lines, i + 1, start, sorted_lines[i], regions)
         ELSE Regions(sorted_lines, i + 1, sorted_lines[i], sorted_lines[i],
                      Append(regions, [start |-> start, end |-> end]))

\* regions that are never merged: one for every edited line
regions_unmerged(edits) ==
    IF edits = <<>> THEN <<>>
    ELSE LET sorted_lines == SortedLines(edits)
         IN  [k \in DOMAIN sorted_lines |->
                 [start |-> sorted_lines[k], end |-> sorted_lines[k]]]

\* DiffGuard._update_protected_regions
update_protected_regions(edits) ==
    IF edits = <<>> THEN <<>>
    ELSE LET sorted_lines == SortedLines(edits)
         IN  Regions(sorted_lines, 2, sorted_lines[1], sorted_lines[1], <<>>)

\* DiffGuard.track_edit: the user_edits it leaves
track_edit(edits, original, edited_code) ==
    LET a == original.lines
        b == edited_code.lines
    IN  TrackFrom(edits, b, Matching(a, b, 1, Len(a), 1, Len(b)), 1)

\* step 1 of merge_code: the loop over user_edits.items()
RECURSIVE Restore(_, _, _)
Restore(result_lines, edits, i) ==
    IF i > Len(edits) THEN result_lines
    ELSE LET e == edits[i]
         IN  Restore(IF e.line < Len(result_lines) /\ is_parameter_line(e.content)
                     THEN [result_lines EXCEPT ![e.line + 1] = e.content]
                     ELSE result_lines,
                     edits, i + 1)

\* DiffGuard._protect_variables: a line that assigns a protected variable
\* becomes the first edit that assigns the variable, if there is one
protect_variables(lines, edits, variables) ==
    [k \in DOMAIN lines |->
        LET line == lines[k]
            hits == {i \in DOMAIN edits : IsAssignmentOf(line.var, edits[i].content)}
        IN  IF line.var \in variables /\ is_parameter_line(line) /\ hits # {}
            THEN edits[CHOOSE i \in hits : \A h \in hits : i <= h].content
            ELSE line]

\* an empty line
Blank == [var |-> None, value |-> ""]

\* '\n'.join(lines) as a text: no line break ends it, so that a last line
\* that is empty is the line break of the line before it, or nothing
Join(lines) ==
    IF lines # <<>> /\ lines[Len(lines)] = Blank
    THEN Text(SubSeq(lines, 1, Len(lines) - 1), Len(lines) > 1)
    ELSE Text(lines, FALSE)

\* merge_code without its first test: the lines are split and joined always
merge_always(edits, variables, new_code) ==
    LET restored == Restore(new_code.lines, edits, 1)
    IN  Join(IF variables # {} THEN protect_variables(restored, edits, variables)
             ELSE restored)

\* DiffGuard.merge_code(new_code); '\n'.join ends in no line break
merge_code(edits, variables, new_code) ==
    IF edits = <<>> /\ variables = {} THEN new_code
    ELSE LET restored == Restore(new_code.lines, edits, 1)
         IN  Join(IF variables # {} THEN protect_variables(restored, edits, variables)
                  ELSE restored)

\* code_utils.update_parameter: every line that assigns a number to var_name
\* gets str(new_value)
update_parameter(code, var_name, new_value) ==
    Text([k \in DOMAIN code.lines |->
             IF IsAssignmentOf(var_name, code.lines[k])
             THEN Assign(var_name, Repr(new_value)) ELSE code.lines[k]],
         code.nl)

\* a call and its arguments; again: the call before it was the same call of
\* track_edit; human: for each variable, the value updateParameter wrote
\* into the current code since the variable was last unprotected, or 0
GuardCall(op, text, name, value) ==
    [op |-> op, text |-> text, name |-> name, value |-> value,
     again |-> op = "track_edit" /\ guard_call.op = op /\ guard_call.text = text,
     human |-> guard_call.human]

\* the next call is one of at most MaxGuardOps before merge_code, which ends
\* the run
MayGuard == ops < MaxGuardOps /\ guard_call.op # "merge_code"

GuardPlans == SeqsUpTo(PlanItems, MaxGuardPlanLen)

\* model files the renderer writes
ModelPaths == {"m1", "m2"}

\* CADController._on_generation_finished(message, code, model_path), items
\* being generator.last_plan
on_generation_finished(code, model_path, items) ==
    /\ is_busy' = FALSE
    /\ current_code' = code
    /\ current_model_path' = model_path
    /\ current_plan' = items
    /\ SetGraph(reload(Self, items), raised)
    /\ loaded' = items
    /\ original_code' = code
    /\ user_edits' = <<>>
    /\ protected_regions' = <<>>
    /\ guard_call' = GuardCall("set_original", code, None, 0)

\* a generation ends: it left its plan in generator.last_plan and the
\* controller is handed a code of the set codes
GenerationFinishedOf(codes) ==
    /\ MayGuard
    /\ \E code \in codes, last_plan \in GuardPlans :
          /\ generator_last_plan' = last_plan
          /\ on_generation_finished(code, "m1", last_plan)
    /\ ops' = ops + 1
    /\ UNCHANGED <<wf_vars, render_vars, worker, render, returned, protected_variables, merged,
                   checked, emitted>>

OnGenerationFinished == GenerationFinishedOf(Texts({FALSE}))

\* DiffGuard.track_edit(edited_code), for a text of the set texts
TrackEditOf(texts) ==
    /\ MayGuard
    /\ \E edited_code \in texts :
          LET edits == track_edit(user_edits, original_code, edited_code)
          IN  /\ user_edits' = edits
              /\ protected_regions' = update_protected_regions(edits)
              /\ guard_call' = GuardCall("track_edit", edited_code, None, 0)
    /\ ops' = ops + 1
    /\ UNCHANGED <<parts, order, adj_list, rev_adj_list, raised, returned, wf_vars, render_vars, job_vars,
                   original_code, protected_variables, current_code, merged,
                   loaded, checked, emitted>>

TrackEdit == TrackEditOf(Texts({FALSE}))

\* CADController.setCode(code)
SetCode ==
    /\ MayGuard
    /\ \E code \in Texts({FALSE}) :
          /\ code # current_code
          /\ LET edits == track_edit(user_edits, original_code, code)
             IN  /\ user_edits' = edits
                 /\ protected_regions' = update_protected_regions(edits)
          /\ current_code' = code
          /\ guard_call' = GuardCall("setCode", code, None, 0)
    /\ ops' = ops + 1
    /\ UNCHANGED <<parts, order, adj_list, rev_adj_list, raised, returned, wf_vars, render_vars, job_vars,
                   original_code, protected_variables, merged, loaded, checked,
                   emitted>>

\* CADController.updateParameter(name, value)
UpdateParameter ==
    /\ MayGuard
    /\ \E name \in Vars, value \in Floats :
          /\ current_code' = update_parameter(current_code, name, value)
          /\ protected_variables' = protected_variables \cup {name}
          /\ guard_call' = [GuardCall("updateParameter", EmptyText, name, value)
                               EXCEPT !.human[name] =
                                   IF \E k \in DOMAIN current_code.lines :
                                          IsAssignmentOf(name, current_code.lines[k])
                                   THEN value ELSE @]
    /\ ops' = ops + 1
    /\ UNCHANGED <<parts, order, adj_list, rev_adj_list, raised, returned, wf_vars, render_vars, job_vars,
                   original_code, user_edits, protected_regions, merged, loaded,
                   checked, emitted>>

\* DiffGuard.unprotect_variable(var_name)
UnprotectVariable ==
    /\ MayGuard
    /\ \E var_name \in Vars :
          /\ protected_variables' = protected_variables \ {var_name}
          /\ guard_call' = [GuardCall("unprotect_variable", EmptyText, var_name, 0)
                               EXCEPT !.human[var_name] = 0]
    /\ ops' = ops + 1
    /\ UNCHANGED <<parts, order, adj_list, rev_adj_list, raised, returned, wf_vars, render_vars, job_vars,
                   original_code, user_edits, protected_regions, current_code,
                   merged, loaded, checked, emitted>>

\* CADController.newSession(): DiffGuard.clear() and a new PartGraph
NewSession ==
    /\ MayGuard
    /\ current_code' = EmptyText
    /\ original_code' = EmptyText
    /\ user_edits' = <<>>
    /\ protected_regions' = <<>>
    /\ protected_variables' = {}
    /\ SetGraph(EmptyGraph, None)
    /\ loaded' = <<>>
    /\ guard_call' = [GuardCall("clear", EmptyText, None, 0)
                         EXCEPT !.human = [var \in Vars |-> 0]]
    /\ current_model_path' = ""
    /\ current_plan' = <<>>
    /\ ops' = ops + 1
    /\ UNCHANGED <<wf_vars, render_vars, is_busy, generator_last_plan, worker, render, returned,
                   merged, checked, emitted>>

\* DiffGuard.merge_code(new_code), for a text of the set texts
MergeCodeOf(texts) ==
    /\ guard_call.op # "merge_code"
    /\ \E new_code \in texts :
          /\ merged' = [fresh |-> new_code,
                        result |-> merge_code(user_edits, protected_variables, new_code)]
          /\ guard_call' = GuardCall("merge_code", new_code, None, 0)
    /\ UNCHANGED <<graph_vars, wf_vars, render_vars, job_vars, original_code, user_edits,
                   protected_regions, protected_variables, current_code, loaded,
                   checked, emitted>>

MergeCode == MergeCodeOf(Texts(BOOLEAN))

GuardNext ==
    \/ OnGenerationFinished
    \/ TrackEdit
    \/ SetCode
    \/ UpdateParameter
    \/ UnprotectVariable
    \/ NewSession
    \/ MergeCode

\* a session of the controller: code is generated, edited by hand and by
\* parameter, and merged with newly generated code
SpecGuard == GraphInitAll /\ [][GuardNext]_vars

\* texts of up to MaxLines lines some of which are empty; a text whose last
\* line is empty ends in a line break
BlankTexts ==
    {t \in {Text(l, nl) : l \in SeqsUpTo({Assign("v", "1"), Other, Blank}, MaxLines),
                          nl \in BOOLEAN} :
        /\ t.lines = <<>> => ~t.nl
        /\ (t.lines # <<>> /\ t.lines[Len(t.lines)] = Blank) => t.nl}

BlankGenerationFinished == GenerationFinishedOf(BlankTexts)

BlankTrackEdit == TrackEditOf(BlankTexts)

BlankMergeCode == MergeCodeOf(BlankTexts)

MergeNext ==
    \/ BlankGenerationFinished
    \/ BlankTrackEdit
    \/ UpdateParameter
    \/ BlankMergeCode

\* code with empty lines is generated, edited and merged
SpecMerge == GraphInitAll /\ [][MergeNext]_vars

MaxLongLines == 4           \* lines of a text in SpecRegions

\* texts of more lines, of two kinds of line
LongTexts ==
    {Text(l, FALSE) : l \in SeqsUpTo({Assign("v", "1"), Other}, MaxLongLines)}

LongGenerationFinished == GenerationFinishedOf(LongTexts)

LongTrackEdit == TrackEditOf(LongTexts)

RegionsNext == LongGenerationFinished \/ LongTrackEdit

\* generated code of several lines and edits of it by hand
SpecRegions == GraphInitAll /\ [][RegionsNext]_vars

(***************************************************************************)
(* Background operations and their cancellation: the GenerationWorker of   *)
(* the controller (workers.py, controller.py) runs in a thread of its own  *)
(* and hands its result to the main thread by a queued signal; the render  *)
(* of the widget window (window.py) runs in a process of its own and is    *)
(* polled by a timer of the main thread.  A run uses one front end.        *)
(***************************************************************************)
MaxJobPlanLen == 1          \* items of the plan a generation leaves

JobPlans == SeqsUpTo(PlanItems, MaxJobPlanLen)

JobCodes == {Text(<<Assign("v", "1")>>, FALSE), Text(<<Other>>, FALSE)}

ThisSession ==
    Session(current_code, current_model_path, current_plan,
            parts, order, adj_list, rev_adj_list)

guard_vars == <<original_code, user_edits, protected_regions, protected_variables,
                merged, guard_call, loaded, checked, emitted>>

\* CADController.generateFromRequest / refineCode: a GenerationWorker is
\* started unless the controller is busy
GenerateFromRequest ==
    /\ ~is_busy
    /\ render = NoRender
    /\ is_busy' = TRUE
    /\ worker' = [NoWorker EXCEPT !.pc = "started", !.before = ThisSession]
    /\ UNCHANGED <<graph_vars, wf_vars, render_vars, guard_vars, current_code,
                   current_model_path, current_plan, generator_last_plan, render>>

\* GenerationWorker.run, workers.py:30-41: generate_full_code leaves its plan
\* in generator.last_plan (gen_full.py:88), refine_code leaves it alone; an
\* exception is emitted as error (workers.py:56-57)
WorkerGenerate ==
    /\ worker.pc = "started"
    /\ \E items \in JobPlans \cup {generator_last_plan} :
          /\ generator_last_plan' = items
          /\ \/ \E code \in JobCodes :
                   worker' = [worker EXCEPT !.pc = "generated", !.new_code = code]
             \/ worker' = [worker EXCEPT !.pc = "error"]
    /\ UNCHANGED <<graph_vars, wf_vars, render_vars, guard_vars, current_code,
                   current_model_path, current_plan, is_busy, render>>

\* workers.py:43-44: the one place the worker reads _is_cancelled
WorkerCheck ==
    /\ worker.pc = "generated"
    /\ worker' = [worker EXCEPT
                     !.pc = IF worker.is_cancelled THEN "returned" ELSE "rendering"]
    /\ UNCHANGED <<graph_vars, wf_vars, render_vars, guard_vars, current_code,
                   current_model_path, current_plan, is_busy,
                   generator_last_plan, render>>

\* workers.py:47-54: render_code and the signal finished or error, queued to
\* the main thread
WorkerRender ==
    /\ worker.pc = "rendering"
    /\ \/ \E model_path \in ModelPaths :
             worker' = [worker EXCEPT !.pc = "finished", !.model_path = model_path]
       \/ worker' = [worker EXCEPT !.pc = "error"]
    /\ UNCHANGED <<graph_vars, wf_vars, render_vars, guard_vars, current_code,
                   current_model_path, current_plan, is_busy,
                   generator_last_plan, render>>

\* GenerationWorker.cancel, called by WorkerThread.stop on the worker it
\* holds (workers.py:148-151), from the main thread
Cancel ==
    /\ worker.pc \notin {"none", "delivered"}
    /\ ~worker.is_cancelled
    /\ worker' = [worker EXCEPT !.is_cancelled = TRUE]
    /\ UNCHANGED <<graph_vars, wf_vars, render_vars, guard_vars, current_code,
                   current_model_path, current_plan, is_busy,
                   generator_last_plan, render>>

\* the main thread runs the slot of the queued signal finished
DeliverFinished ==
    /\ worker.pc = "finished"
    /\ on_generation_finished(worker.new_code, worker.model_path, generator_last_plan)
    /\ worker' = [worker EXCEPT !.pc = "delivered"]
    /\ UNCHANGED <<wf_vars, render_vars, ops, returned, protected_variables, merged, checked,
                   emitted, generator_last_plan, render>>

\* CADController._on_generation_error, the slot of the queued signal error
DeliverError ==
    /\ worker.pc = "error"
    /\ is_busy' = FALSE
    /\ worker' = [worker EXCEPT !.pc = "delivered"]
    /\ UNCHANGED <<graph_vars, wf_vars, render_vars, guard_vars, current_code,
                   current_model_path, current_plan, generator_last_plan, render>>

\* CADWindow.cancel_render, window.py:576-590: the process is terminated,
\* the timer stopped and the process forgotten; cancelled records that a
\* render was under way
cancel_render ==
    /\ render' = [render EXCEPT !.process = "none", !.timer = FALSE,
                                !.cancelled = render.cancelled \/ render.timer]
    /\ is_busy' = FALSE

\* the button of cancel_render
CancelRender ==
    /\ worker = NoWorker
    /\ render # NoRender
    /\ cancel_render
    /\ UNCHANGED <<graph_vars, wf_vars, render_vars, guard_vars, current_code,
                   current_model_path, current_plan, generator_last_plan, worker>>

\* CADWindow.render_code_manual, window.py:538-574, on the text of the editor
RenderCodeManual ==
    /\ worker = NoWorker
    /\ \E code \in JobCodes :
          IF render.process = "alive"
          THEN cancel_render
          ELSE /\ is_busy' = TRUE
               /\ render' = [NoRender EXCEPT !.process = "alive", !.timer = TRUE,
                                             !.code = code, !.before = ThisSession]
    /\ UNCHANGED <<graph_vars, wf_vars, render_vars, guard_vars, current_code,
                   current_model_path, current_plan, generator_last_plan, worker>>

\* _render_in_process, window.py:42-67: the result is put in the queue
RenderInProcess ==
    /\ render.process = "alive"
    /\ render.result = "none"
    /\ \/ \E model_path \in ModelPaths :
             render' = [render EXCEPT !.result = "ok", !.model_path = model_path]
       \/ render' = [render EXCEPT !.result = "fail"]
    /\ UNCHANGED <<graph_vars, wf_vars, render_vars, guard_vars, current_code,
                   current_model_path, current_plan, is_busy,
                   generator_last_plan, worker>>

\* the render process ends, with its result in the queue or without
RenderExit ==
    /\ render.process = "alive"
    /\ render' = [render EXCEPT !.process = "exited"]
    /\ UNCHANGED <<graph_vars, wf_vars, render_vars, guard_vars, current_code,
                   current_model_path, current_plan, is_busy,
                   generator_last_plan, worker>>

\* CADWindow._check_render_result, window.py:592-621, once the process is
\* no longer alive
CheckRenderResult ==
    /\ render.timer
    /\ render.process # "alive"
    /\ render' = [render EXCEPT !.process = "none", !.timer = FALSE]
    /\ is_busy' = FALSE
    /\ IF render.result = "ok"
       THEN /\ current_code' = render.code
            /\ current_model_path' = render.model_path
       ELSE UNCHANGED <<current_code, current_model_path>>
    /\ UNCHANGED <<graph_vars, wf_vars, render_vars, guard_vars, current_plan,
                   generator_last_plan, worker>>

CancelNext ==
    \/ GenerateFromRequest
    \/ WorkerGenerate
    \/ WorkerCheck
    \/ WorkerRender
    \/ Cancel
    \/ DeliverFinished
    \/ DeliverError
    \/ CancelRender
    \/ RenderCodeManual
    \/ RenderInProcess
    \/ RenderExit
    \/ CheckRenderResult

\* a session in which generations and renders run in the background and are
\* cancelled at any moment
SpecCancel == GraphInitAll /\ [][CancelNext]_vars

(***************************************************************************)
(* PlanValidator.  A description is the list of its words and numbers; an  *)
(* issue is the kind of its message and the values the message holds.      *)
(***************************************************************************)
MaxCheckedLen == 2          \* items of a validated plan

max_dimension == 10000

CheckedNames == {"A", "B"}

Locations == {0, 60, 100} \X {0, 80} \X {0, 50, 80}

CheckedDeps == {<<>>, <<"B">>}

Word(w) == [word |-> w, num |-> 0]

Number(n) == [word |-> "", num |-> n]

Descriptions ==
    {<<>>, <<Number(-5)>>, <<Word("Angle"), Number(-5)>>, <<Number(-20000)>>}

CheckedItems ==
    [name : CheckedNames, location : Locations, dependencies : CheckedDeps,
     description : Descriptions]

CheckedPlans == SeqsUpTo(CheckedItems, MaxCheckedLen)

Issue(kind, part, dep, num) == [kind |-> kind, part |-> part, dep |-> dep, num |-> num]

\* the concatenation of the lists f gives for the items of a plan, in order
RECURSIVE Extend(_, _, _)
Extend(items, f(_), i) ==
    IF i > Len(items) THEN <<>> ELSE f(items[i]) \o Extend(items, f, i + 1)

\* _is_nearby_xy with threshold 100, both sides of the comparison squared
NearbyInclusive(loc1, loc2) ==
    LET dx == loc1[1] - loc2[1]
        dy == loc1[2] - loc2[2]
    IN  dx * dx + dy * dy <= 100 * 100

\* PlanValidator._is_nearby_xy(loc1, loc2): sqrt(dx*dx + dy*dy) < threshold,
\* for the default threshold and whole coordinates
is_nearby_xy(loc1, loc2) ==
    LET dx == loc1[1] - loc2[1]
        dy == loc1[2] - loc2[2]
    IN  dx * dx + dy * dy < 100 * 100

\* the inner loop of _check_floating: has_support
HasSupport(items, item) ==
    \E k \in DOMAIN items :
        /\ items[k].name # item.name
        /\ items[k].location[3] < item.location[3]
        /\ is_nearby_xy(item.location, items[k].location)

\* PlanValidator._check_floating(plan)
check_floating(items) ==
    LET issue(item) ==
            IF /\ item.location[3] > 0
               /\ item.dependencies = <<>>
               /\ ~HasSupport(items, item)
            THEN <<Issue("floating", item.name, None, item.location[3])>>
            ELSE <<>>
    IN  Extend(items, issue, 1)

\* "angle" in desc.lower()
HasAngle(desc) == \E k \in DOMAIN desc : desc[k].word \in {"angle", "Angle", "ANGLE"}

\* re.findall of the number pattern: the numbers of the description
NumbersOf(desc) == SelectSeq(desc, LAMBDA t : t.word = "")

Abs(n) == IF n < 0 THEN -n ELSE n

\* PlanValidator._check_dimensions(plan)
check_dimensions(items) ==
    LET of_number(item, t) ==
            (IF t.num < 0 /\ ~HasAngle(item.description)
             THEN <<Issue("negative", item.name, None, t.num)>> ELSE <<>>)
            \o (IF Abs(t.num) > max_dimension
                THEN <<Issue("large", item.name, None, t.num)>> ELSE <<>>)
        issues(item) ==
            Extend(NumbersOf(item.description), LAMBDA t : of_number(item, t), 1)
    IN  Extend(items, issues, 1)

\* a dependency check that knows only the names of the items before the one
\* it looks at
check_dependencies_earlier(items) ==
    LET of_dep(k, dep) ==
            IF dep \notin {items[j].name : j \in 1..(k - 1)}
            THEN <<Issue("missing", items[k].name, dep, 0)>> ELSE <<>>
        issues(k) == Extend(items[k].dependencies, LAMBDA dep : of_dep(k, dep), 1)
    IN  Extend([k \in DOMAIN items |-> k], issues, 1)

\* PlanValidator._check_dependencies(plan)
check_dependencies(items) ==
    LET part_names == {items[k].name : k \in DOMAIN items}
        of_dep(item, dep) ==
            IF dep \notin part_names
            THEN <<Issue("missing", item.name, dep, 0)>> ELSE <<>>
        issues(item) == Extend(item.dependencies, LAMBDA dep : of_dep(item, dep), 1)
    IN  Extend(items, issues, 1)

\* a validate that returns the issues of the first check that has any
validate_first(items) ==
    LET issues == IF check_floating(items) # <<>> THEN check_floating(items)
                  ELSE IF check_dimensions(items) # <<>> THEN check_dimensions(items)
                  ELSE check_dependencies(items)
    IN  [is_valid |-> Len(issues) = 0, issues |-> issues]

\* PlanValidator.validate(plan)
validate_plan(items) ==
    LET issues == check_floating(items) \o check_dimensions(items)
                     \o check_dependencies(items)
    IN  [is_valid |-> Len(issues) = 0, issues |-> issues]

ValidatePlan ==
    /\ checked.op = None
    /\ \E items \in CheckedPlans :
          LET out == validate_plan(items)
          IN  checked' = [op |-> "validate", plan |-> items,
                          is_valid |-> out.is_valid, issues |-> out.issues]
    /\ UNCHANGED <<graph_vars, wf_vars, render_vars, job_vars, original_code, user_edits,
                   protected_regions, protected_variables, current_code, merged,
                   guard_call, loaded, emitted>>

\* one call of validate on a new PlanValidator
SpecValidate == GraphInitAll /\ [][ValidatePlan]_vars

(***************************************************************************)
(* The dimension check on descriptions of up to MaxTokens words and        *)
(* numbers.                                                                *)
(***************************************************************************)
MaxTokens == 3              \* words and numbers of a description

Tokens ==
    {Word("angle"), Word("Angle"), Word("wide"),
     Number(-5), Number(5), Number(-20000), Number(10000), Number(10001)}

DimensionItems ==
    [name : CheckedNames, location : {<<0, 0, 0>>}, dependencies : {<<>>},
     description : SeqsUpTo(Tokens, MaxTokens)]

\* PlanValidator._check_dimensions(plan) on a plan of one item
CheckDimensions ==
    /\ checked.op = None
    /\ \E item \in DimensionItems :
          LET issues == check_dimensions(<<item>>)
          IN  checked' = [op |-> "check_dimensions", plan |-> <<item>>,
                          is_valid |-> Len(issues) = 0, issues |-> issues]
    /\ UNCHANGED <<graph_vars, wf_vars, render_vars, job_vars, original_code, user_edits,
                   protected_regions, protected_variables, current_code, merged,
                   guard_call, loaded, emitted>>

SpecDimensions == GraphInitAll /\ [][CheckDimensions]_vars

(***************************************************************************)
(* One plan given to PartGraph.from_plan and to the dependency check of    *)
(* PlanValidator, as the controller does with its current plan             *)
(* (controller.py:143 and 401).                                            *)
(***************************************************************************)
MaxAgreeLen == 3            \* items of the plan both are given

AgreePlans == SeqsUpTo(PlanItems, MaxAgreeLen)

\* PartGraph.from_plan(plan) on a new graph
LoadAgree ==
    /\ ops = 0 /\ returned.op = None
    /\ \E items \in AgreePlans :
          /\ SetGraph(from_plan(items), None)
          /\ loaded' = items
          /\ returned' = Call("from_plan", None)
    /\ ops' = 1
    /\ UNCHANGED <<wf_vars, render_vars, job_vars, original_code, user_edits, protected_regions,
                   protected_variables, current_code, merged, guard_call,
                   checked, emitted>>

\* PlanValidator._check_dependencies(plan) on the plan that was loaded
CheckDependencies ==
    /\ ops = 1 /\ checked.op = None
    /\ LET issues == check_dependencies(loaded)
       IN  checked' = [op |-> "check_dependencies", plan |-> loaded,
                       is_valid |-> Len(issues) = 0, issues |-> issues]
    /\ UNCHANGED <<graph_vars, wf_vars, render_vars, job_vars, original_code, user_edits,
                   protected_regions, protected_variables, current_code, merged,
                   guard_call, loaded, emitted>>

\* PartGraph.validate() on the graph of the plan
ValidateLoaded == ops = 1 /\ Validate

AgreeNext == LoadAgree \/ CheckDependencies \/ ValidateLoaded

SpecAgree == GraphInitAll /\ [][AgreeNext]_vars

\* ---------------------------------------------------------------------------
\* The renderer (src/src/generators/renderer.py)
\* ---------------------------------------------------------------------------

Bodies == {"box", "ball", "unbound", "raises", "syntax"}

Scripts == {Script(b, i, c) : b \in Bodies, i \in BOOLEAN, c \in BOOLEAN}

StlPath == "output/model.stl"

StepPath == "output/model.step"

\* _clean_code_for_exec: typographic quotes and punctuation become ASCII
clean_code_for_exec(code) == [code EXCEPT !.curly = FALSE]

\* _strip_imports: the import lines of build123d and math are removed
strip_imports(code) == [code EXCEPT !.imports = FALSE]

\* hashlib.md5(code_str.encode()).hexdigest()[:16] of the cleaned script: one
\* key for each cleaned text
code_hash(code) == code.body

\* exec(...) of the cleaned script followed by the injected export block, in
\* the namespace names: the exception raised, and the model written to
\* model.stl by export_stl when one of the exported names is bound
Exec(code, names) ==
    CASE code.curly \/ code.body = "syntax" ->
            [exc |-> "SyntaxError", exported |-> None]
      [] code.body = "raises" ->
            [exc |-> "ZeroDivisionError", exported |-> None]
      [] code.body = "unbound" ->
            [exc |-> None, exported |-> None]
      [] OTHER ->
            IF "build123d" \in names
            THEN [exc |-> None, exported |-> code.body]
            ELSE [exc |-> "NameError", exported |-> None]

\* _get_preloaded_globals run without interruption: the namespace is created
\* and filled on the first call, a copy is returned (an ImportError of
\* build123d leaves the names of math out as well)
get_preloaded_globals(globals, installed) ==
    LET namespace == IF globals.is_none
                  THEN Some({"__builtins__"} \cup
                            (IF installed THEN {"build123d", "math"} ELSE {}))
                  ELSE globals
    IN  [globals |-> namespace, copy |-> namespace.value]

\* the model file export_stl writes: the shape and the deflection used
Model(shape, preview_mode) == [shape |-> shape, preview_mode |-> preview_mode]

\* the output directory after exec: model.stl is written (again) when the
\* script ran to its end with an exported name bound
Written(files, run, preview_mode) ==
    IF run.exc = None /\ run.exported # None
    THEN DictSet(files, StlPath, Model(run.exported, preview_mode))
    ELSE files

\* os.path.exists(stl_path), then os.path.exists(step_path)
OutputPath(files) ==
    IF StlPath \in DOMAIN files THEN StlPath
    ELSE IF StepPath \in DOMAIN files THEN StepPath
    ELSE None

\* lines 107-125 and 333-348: exec in the namespace names, then the test for
\* the output file: the directory left, the path found (None after an
\* exception or without a file), the exception, and whether this execution
\* exported a model
Executed(code, names, preview_mode, files) ==
    LET run == Exec(code, names)
        written == Written(files, run, preview_mode)
    IN  [files |-> written,
         path |-> IF run.exc # None THEN None ELSE OutputPath(written),
         error |-> run.exc,
         exported |-> run.exc = None /\ run.exported # None]

\* line 90: the cache answers
CacheHit(code, use_cache, cache, files) ==
    /\ use_cache
    /\ code_hash(code) \in DOMAIN cache
    /\ cache[code_hash(code)] \in DOMAIN files

\* lines 117, 121: a path found is stored under the hash of the script
Cached(cache, code, path) ==
    IF path # None THEN DictSet(cache, code_hash(code), path) ELSE cache

\* render_code: the cache, the directory and the namespace it leaves, the
\* path it returns (None on failure), whether the cache answered, whether
\* this call's execution exported a model
render_code(code_str, use_cache, preview_mode, cache, files, globals, installed) ==
    LET code == strip_imports(clean_code_for_exec(code_str))
        g == get_preloaded_globals(globals, installed)
        out == Executed(code, g.copy, preview_mode, files)
    IN  IF CacheHit(code, use_cache, cache, files)
        THEN [cache |-> cache, files |-> files, globals |-> globals,
              path |-> cache[code_hash(code)], error |-> None, hit |-> TRUE,
              exported |-> FALSE, exec_globals |-> {}]
        ELSE [cache |-> Cached(cache, code, out.path),
              files |-> out.files, globals |-> g.globals,
              path |-> out.path, error |-> out.error, hit |-> FALSE,
              exported |-> out.exported, exec_globals |-> g.copy]

\* render_code_safe: compile first, no cache; the error message is the
\* exception's name or "No output file generated"
render_code_safe(code_str, preview_mode, files, globals, installed) ==
    LET code == strip_imports(clean_code_for_exec(code_str))
        g == get_preloaded_globals(globals, installed)
        out == Executed(code, g.copy, preview_mode, files)
    IN  IF code.body = "syntax"
        THEN [files |-> files, globals |-> globals, path |-> None,
              error |-> "SyntaxError", exported |-> FALSE, exec_globals |-> {}]
        ELSE [files |-> out.files, globals |-> g.globals, path |-> out.path,
              error |-> IF out.error # None THEN out.error
                        ELSE IF out.path = None THEN "No output file generated"
                        ELSE None,
              exported |-> out.exported, exec_globals |-> g.copy]

\* a call of render_code on the calling thread
RenderCode ==
    \E code_str \in Scripts, use_cache \in BOOLEAN, preview_mode \in BOOLEAN :
        LET out == render_code(code_str, use_cache, preview_mode, CODE_CACHE,
                               model_files, PRELOADED_GLOBALS, toolkit)
        IN  /\ CODE_CACHE' = out.cache
            /\ model_files' = out.files
            /\ PRELOADED_GLOBALS' = out.globals
            /\ rendered' = [op |-> "render_code", code |-> code_str,
                            use_cache |-> use_cache, preview_mode |-> preview_mode,
                            success |-> out.path # None, path |-> out.path,
                            error |-> out.error, hit |-> out.hit,
                            exported |-> out.exported,
                            exec_globals |-> out.exec_globals]
            /\ UNCHANGED <<toolkit, threads, graph_vars, wf_vars, core_vars>>

\* a call of render_code_safe on the calling thread
RenderCodeSafe ==
    \E code_str \in Scripts, preview_mode \in BOOLEAN :
        LET out == render_code_safe(code_str, preview_mode, model_files,
                                    PRELOADED_GLOBALS, toolkit)
        IN  /\ model_files' = out.files
            /\ PRELOADED_GLOBALS' = out.globals
            /\ rendered' = [op |-> "render_code_safe", code |-> code_str,
                            use_cache |-> FALSE, preview_mode |-> preview_mode,
                            success |-> out.path # None, path |-> out.path,
                            error |-> out.error, hit |-> FALSE,
                            exported |-> out.exported,
                            exec_globals |-> out.exec_globals]
            /\ UNCHANGED <<CODE_CACHE, toolkit, threads, graph_vars, wf_vars,
                           core_vars>>

\* clear_cache
ClearCache ==
    /\ CODE_CACHE # <<>>
    /\ CODE_CACHE' = <<>>
    /\ UNCHANGED <<PRELOADED_GLOBALS, model_files, toolkit, threads, rendered,
                   graph_vars, wf_vars, core_vars>>

\* the renderer in a process of its own, build123d installed or not
RenderInit ==
    /\ GraphInit /\ WfIdle /\ CoreInit /\ RendererInit /\ toolkit \in BOOLEAN

RenderNext == RenderCode \/ RenderCodeSafe \/ ClearCache

SpecRender == RenderInit /\ [][RenderNext]_vars

\* ---- the preload thread (main.py:20-27) beside the thread of a render call
\* (workers.py:48-49); a thread is interrupted between the statements of
\* _get_preloaded_globals

\* the scripts of the render calls made beside the preload thread: one that
\* uses the toolkit, one that does not
ThreadScripts == {Script("box", TRUE, FALSE), Script("unbound", FALSE, FALSE)}

ThreadAt(t, pc) == [threads EXCEPT ![t].pc = pc]

\* main.py:27: threading.Thread(target=preload_task, daemon=True).start()
StartPreload ==
    /\ threads["preload"].pc = "none"
    /\ threads' = ThreadAt("preload", "check")
    /\ UNCHANGED <<CODE_CACHE, PRELOADED_GLOBALS, model_files, toolkit, rendered,
                   graph_vars, wf_vars, core_vars>>

\* render_code up to line 105: the cache answers, or the call goes on to
\* _get_preloaded_globals
StartRender ==
    \E code_str \in ThreadScripts, use_cache \in BOOLEAN, preview_mode \in {FALSE} :
        LET code == strip_imports(clean_code_for_exec(code_str))
            hit == CacheHit(code, use_cache, CODE_CACHE, model_files)
            call == [op |-> "render_code", code |-> code_str,
                     use_cache |-> use_cache, preview_mode |-> preview_mode,
                     success |-> TRUE, path |-> None, error |-> None,
                     hit |-> TRUE, exported |-> FALSE, exec_globals |-> {}]
        IN  /\ threads["render"].pc \in {"none", "done"}
            /\ threads' = [threads EXCEPT !["render"] =
                    [pc |-> IF hit THEN "done" ELSE "check", code |-> code_str,
                     use_cache |-> use_cache, preview_mode |-> preview_mode,
                     exec_globals |-> {}]]
            /\ rendered' = IF hit
                           THEN [call EXCEPT !.path = CODE_CACHE[code_hash(code)]]
                           ELSE rendered
            /\ UNCHANGED <<CODE_CACHE, PRELOADED_GLOBALS, model_files, toolkit,
                           graph_vars, wf_vars, core_vars>>

\* line 33: if _PRELOADED_GLOBALS is None
CheckGlobals ==
    \E t \in DOMAIN threads :
        /\ threads[t].pc = "check"
        /\ threads' = ThreadAt(t, IF PRELOADED_GLOBALS.is_none THEN "create"
                                  ELSE "copy")
        /\ UNCHANGED <<CODE_CACHE, PRELOADED_GLOBALS, model_files, toolkit,
                       rendered, graph_vars, wf_vars, core_vars>>

\* line 37: _PRELOADED_GLOBALS = {"__builtins__": __builtins__}
CreateGlobals ==
    \E t \in DOMAIN threads :
        /\ threads[t].pc = "create"
        /\ PRELOADED_GLOBALS' = Some({"__builtins__"})
        /\ threads' = ThreadAt(t, "build123d")
        /\ UNCHANGED <<CODE_CACHE, model_files, toolkit, rendered,
                       graph_vars, wf_vars, core_vars>>

\* line 41: exec("from build123d import *", _PRELOADED_GLOBALS), into the
\* namespace the global names at that moment; an ImportError goes to line 51
ImportToolkit ==
    \E t \in DOMAIN threads :
        /\ threads[t].pc = "build123d"
        /\ PRELOADED_GLOBALS' =
              IF toolkit THEN Some(PRELOADED_GLOBALS.value \cup {"build123d"})
              ELSE PRELOADED_GLOBALS
        /\ threads' = ThreadAt(t, IF toolkit THEN "math" ELSE "copy")
        /\ UNCHANGED <<CODE_CACHE, model_files, toolkit, rendered,
                       graph_vars, wf_vars, core_vars>>

\* lines 42-48: exec("from math import *", _PRELOADED_GLOBALS) and the
\* export functions, names of build123d
ImportMath ==
    \E t \in DOMAIN threads :
        /\ threads[t].pc = "math"
        /\ PRELOADED_GLOBALS' = Some(PRELOADED_GLOBALS.value \cup {"math"})
        /\ threads' = ThreadAt(t, "copy")
        /\ UNCHANGED <<CODE_CACHE, model_files, toolkit, rendered,
                       graph_vars, wf_vars, core_vars>>

\* line 55: return _PRELOADED_GLOBALS.copy(); preload() drops the copy, and
\* render_code binds it to exec_globals
CopyGlobals ==
    \E t \in DOMAIN threads :
        /\ threads[t].pc = "copy"
        /\ threads' = [threads EXCEPT
                ![t].pc = IF t = "render" THEN "exec" ELSE "done",
                ![t].exec_globals = PRELOADED_GLOBALS.value]
        /\ UNCHANGED <<CODE_CACHE, PRELOADED_GLOBALS, model_files, toolkit,
                       rendered, graph_vars, wf_vars, core_vars>>

\* render_code, lines 107-130, with the namespace the call was given
ExecRender ==
    LET call == threads["render"]
        code == strip_imports(clean_code_for_exec(call.code))
        out == Executed(code, call.exec_globals, call.preview_mode, model_files)
    IN  /\ call.pc = "exec"
        /\ model_files' = out.files
        /\ CODE_CACHE' = Cached(CODE_CACHE, code, out.path)
        /\ rendered' = [op |-> "render_code", code |-> call.code,
                        use_cache |-> call.use_cache,
                        preview_mode |-> call.preview_mode,
                        success |-> out.path # None, path |-> out.path,
                        error |-> out.error, hit |-> FALSE,
                        exported |-> out.exported,
                        exec_globals |-> call.exec_globals]
        /\ threads' = ThreadAt("render", "done")
        /\ UNCHANGED <<PRELOADED_GLOBALS, toolkit, graph_vars, wf_vars, core_vars>>

PreloadNext ==
    \/ StartPreload \/ StartRender \/ CheckGlobals \/ CreateGlobals
    \/ ImportToolkit \/ ImportMath \/ CopyGlobals \/ ExecRender

SpecPreload == RenderInit /\ [][PreloadNext]_vars

(***************************************************************************)
(* Properties of the parts of a PartGraph.                                 *)
(***************************************************************************)
\* the names of the items of a plan
NamedIn(items) == {items[i].name : i \in DOMAIN items}

\* the dependencies the items of a plan declare for the name n
DeclaredIn(items, n) ==
    UNION {Range(items[i].dependencies) : i \in {k \in DOMAIN items : items[k].name = n}}

\* C11: after from_plan(plan) the parts of the graph are the names of the
\* plan's items, the edges of both directions are the dependencies the items
\* declare, and every part has no code and is neither dirty nor locked,
\* whatever the graph held before the call.
C11_FromPlanReplaces ==
    returned.op = "from_plan" =>
        /\ raised = None
        /\ DOMAIN parts = NamedIn(loaded)
        /\ Range(order) = NamedIn(loaded)
        /\ \A n \in Names :
              /\ DefaultGet(adj_list, n) = DeclaredIn(loaded, n)
              /\ DefaultGet(rev_adj_list, n)
                     = {m \in Names : n \in DeclaredIn(loaded, m)}
        /\ \A n \in DOMAIN parts :
              /\ parts[n].code = ""
              /\ ~parts[n].is_dirty
              /\ ~parts[n].is_locked
              /\ Range(parts[n].dependencies) \subseteq DeclaredIn(loaded, n)

\* a plan with parts and edges loaded over a graph that held other parts, one
\* of them locked, dirty and with code
C11_Witness ==
    /\ returned.op = "from_plan"
    /\ returned.had_content
    /\ ~returned.same
    /\ \E n \in Names : DeclaredIn(loaded, n) # {}
    /\ ops > 1

\* C18: a call of update_part or update_part_code for a part that is locked
\* leaves the code of the part as it was.
C18_Original ==
    [][(/\ returned'.op \in {"update_part", "update_part_code"}
        /\ returned'.was_part
        /\ parts[returned'.arg].is_locked)
           => parts'[returned'.arg].code = parts[returned'.arg].code]_vars

\* the parts emit is asked for: the selected parts if any is given, else the
\* dirty parts when only_dirty is set, else all parts
WorkingSet ==
    IF emitted.selected_parts # <<>> THEN Range(emitted.selected_parts) \cap DOMAIN parts
    ELSE IF emitted.only_dirty THEN {n \in DOMAIN parts : parts[n].is_dirty}
    ELSE DOMAIN parts

\* C17: the artifact of emit has a labelled block for exactly the parts of
\* the working set, each once, and no block comes before the block of a part
\* it depends on.
C17_Original ==
    emitted.op = "emit" =>
        LET blocks == emitted.blocks
        IN  /\ Range(blocks) = WorkingSet
            /\ \A i, j \in DOMAIN blocks :
                  i < j => /\ blocks[i] # blocks[j]
                           /\ blocks[j] \notin ReachedFrom(DependsOn, {blocks[i]})

\* the names of the items of a plan are all different and every dependency of
\* an item is the name of an item before it
OrderedPlan(items) ==
    /\ \A i, j \in DOMAIN items : i # j => items[i].name # items[j].name
    /\ \A i \in DOMAIN items : \A dep \in Range(items[i].dependencies) :
          \E j \in 1..(i - 1) : items[j].name = dep

\* C28: after from_plan on a plan with different names, every part after its
\* dependencies, and any remove_part calls, the dependents list of each part
\* holds once each the parts of the graph that declare it as a dependency;
\* right after from_plan on a plan with different names, an item that comes
\* before a dependency of its own has the edge to it and is not in the
\* dependents list of the dependency.
C28_Original ==
    /\ (ops > 0 /\ OrderedPlan(loaded)) =>
          \A n \in DOMAIN parts :
              /\ Range(parts[n].dependents)
                     = {m \in DOMAIN parts : n \in Range(parts[m].dependencies)}
              /\ Len(parts[n].dependents) = Cardinality(Range(parts[n].dependents))
    /\ (ops = 1 /\ \A i, j \in DOMAIN loaded : i # j => loaded[i].name # loaded[j].name) =>
          \A i, j \in DOMAIN loaded :
              (i < j /\ loaded[j].name \in Range(loaded[i].dependencies))
                  => /\ loaded[j].name \in DefaultGet(adj_list, loaded[i].name)
                     /\ loaded[i].name \notin Range(parts[loaded[j].name].dependents)

\* C29: a call of update_part for a part of the graph leaves every part that
\* declares it as a dependency dirty.
C29_Original ==
    [][(returned'.op = "update_part" /\ returned'.was_part)
           => \A m \in DOMAIN parts :
                  returned'.arg \in Range(parts[m].dependencies) => parts'[m].is_dirty]_vars

\* C30: a call of mark_dirty or mark_clean leaves the order, the edges of both
\* directions and every part but the named one as they were, changes of the
\* named part the dirty flag only, and changes nothing when the name is no
\* part of the graph.
C30_MarkChangesOneFlag ==
    [][returned'.op \in {"mark_dirty", "mark_clean"}
           => /\ order' = order /\ adj_list' = adj_list /\ rev_adj_list' = rev_adj_list
              /\ raised' = None
              /\ DOMAIN parts' = DOMAIN parts
              /\ \A m \in DOMAIN parts :
                    parts'[m] = IF m = returned'.arg
                                THEN [parts[m] EXCEPT
                                         !.is_dirty = (returned'.op = "mark_dirty")]
                                ELSE parts[m]]_vars

\* a part marked dirty while a part that depends on it is clean
C30_Witness ==
    /\ returned.op = "mark_dirty" /\ returned.was_part
    /\ parts[returned.arg].is_dirty
    /\ \E m \in DOMAIN parts :
          /\ m # returned.arg
          /\ returned.arg \in DependsOn(m)
          /\ ~parts[m].is_dirty

(***************************************************************************)
(* Properties of DiffGuard.                                                *)
(***************************************************************************)
\* the line of a text at the index i, counted from 0, if it has one
LineAt(text, i) == IF i < Len(text.lines) THEN text.lines[i + 1] ELSE Other

\* the indexes user_edits tracks
EditedLines == {user_edits[i].line : i \in DOMAIN user_edits}

\* C12: the text merge_code returns has the content of the edit at every
\* tracked line that the new code has, and the line of the new code at every
\* other index.
C12_Original ==
    guard_call.op = "merge_code" =>
        /\ \A i \in DOMAIN user_edits :
              user_edits[i].line < Len(merged.fresh.lines)
                  => /\ user_edits[i].line < Len(merged.result.lines)
                     /\ LineAt(merged.result, user_edits[i].line) = user_edits[i].content
        /\ \A k \in 0..(Len(merged.fresh.lines) - 1) :
              k \notin EditedLines
                  => /\ k < Len(merged.result.lines)
                     /\ LineAt(merged.result, k) = LineAt(merged.fresh, k)

\* C13: for every tracked edit whose content assigns a number, at an index
\* the new code has, the text merge_code returns has that content at that
\* index, with and without protected variables.
C13_Original ==
    guard_call.op = "merge_code" =>
        \A i \in DOMAIN user_edits :
            (/\ is_parameter_line(user_edits[i].content)
             /\ user_edits[i].line < Len(merged.fresh.lines))
                => /\ user_edits[i].line < Len(merged.result.lines)
                   /\ LineAt(merged.result, user_edits[i].line) = user_edits[i].content

\* C14: when updateParameter has set a variable that is still protected, the
\* text merge_code returns assigns the value that was set at every line where
\* the new code assigns the variable a number.
C14_Original ==
    guard_call.op = "merge_code" =>
        \A var \in protected_variables :
            guard_call.human[var] # 0 =>
                \A k \in DOMAIN merged.fresh.lines :
                    IsAssignmentOf(var, merged.fresh.lines[k])
                        => /\ k \in DOMAIN merged.result.lines
                           /\ IsAssignmentOf(var, merged.result.lines[k])
                           /\ NumberOf(merged.result.lines[k].value) = guard_call.human[var]

\* C15: with no tracked edit and no protected variable, merge_code returns
\* the new code as it is, its final line break included.
C15_MergeOfNothing ==
    (guard_call.op = "merge_code" /\ user_edits = <<>> /\ protected_variables = {})
        => merged.result = merged.fresh

\* new code of the most lines, ending in a line break, merged after edits and
\* protections were tracked and dropped again
C15_Witness ==
    /\ guard_call.op = "merge_code"
    /\ user_edits = <<>> /\ protected_variables = {}
    /\ merged.fresh.nl /\ Len(merged.fresh.lines) = MaxLines
    /\ original_code # EmptyText
    /\ ops = MaxGuardOps

\* C16: a call of track_edit with the text of the track_edit call just before
\* it leaves user_edits and protected_regions as they were.
C16_TrackEditTwice ==
    [][(guard_call'.op = "track_edit" /\ guard_call'.again)
           => /\ user_edits' = user_edits
              /\ protected_regions' = protected_regions]_vars

\* the same edit tracked twice, of two lines that the original text has not
C16_Witness ==
    /\ guard_call.op = "track_edit" /\ guard_call.again
    /\ Len(user_edits) = MaxLines
    /\ Len(protected_regions) = 1

\* C24: after set_original and track_edit calls, every entry of user_edits
\* has an index that is a line index of the text tracked last and the content
\* of that line, and none is at a line that the diff of that text with the
\* baseline matches.
C24_Original ==
    (guard_call.op \in {"track_edit", "setCode"} /\ original_code # EmptyText) =>
        LET last == guard_call.text.lines
            base == original_code.lines
        IN  \A i \in DOMAIN user_edits :
                /\ user_edits[i].line < Len(last)
                /\ LineAt(guard_call.text, user_edits[i].line) = user_edits[i].content
                /\ user_edits[i].line + 1
                       \notin Matching(base, last, 1, Len(base), 1, Len(last))

\* the entries of user_edits that assign a number to var, in the order they
\* were tracked
EditsOf(var) == SelectSeq(user_edits, LAMBDA e : IsAssignmentOf(var, e.content))

\* the tracked edit of line k assigns a number to a variable other than var
OtherAssignedAt(var, k) ==
    \E i \in DOMAIN user_edits :
        /\ user_edits[i].line = k
        /\ is_parameter_line(user_edits[i].content)
        /\ ~IsAssignmentOf(var, user_edits[i].content)

\* C25: for a protected variable and a line of the new code that assigns it a
\* number, and where no tracked edit assigns another variable, the text
\* merge_code returns has at that line the content of the edit tracked last
\* among those that assign the variable, and the line of the new code when no
\* edit assigns it.
C25_Original ==
    guard_call.op = "merge_code" =>
        \A var \in protected_variables : \A k \in 0..(Len(merged.fresh.lines) - 1) :
            (IsAssignmentOf(var, LineAt(merged.fresh, k)) /\ ~OtherAssignedAt(var, k))
                => LineAt(merged.result, k)
                      = IF EditsOf(var) = <<>> THEN LineAt(merged.fresh, k)
                        ELSE EditsOf(var)[Len(EditsOf(var))].content

\* C26: a call of set_original stores its text as the baseline and leaves
\* user_edits, protected_regions and protected_variables empty, and a
\* merge_code right after it returns the lines of the new code.
C26_Original ==
    [][/\ guard_call'.op = "set_original"
           => /\ original_code' = guard_call'.text
              /\ user_edits' = <<>>
              /\ protected_regions' = <<>>
              /\ protected_variables' = {}
       /\ (guard_call.op = "set_original" /\ guard_call'.op = "merge_code")
           => merged'.result.lines = merged'.fresh.lines]_vars

\* C27: the protected regions are ranges from a start to an end not before
\* it, each region more than 2 lines after the one before it, every start and
\* end is an edited line, every edited line is in exactly one region, and
\* there is no region exactly when there is no edit.
C27_RegionsCoverEdits ==
    LET regions == protected_regions
        within(k) == {r \in DOMAIN regions : regions[r].start <= k /\ k <= regions[r].end}
    IN  /\ \A r \in DOMAIN regions :
              /\ regions[r].start <= regions[r].end
              /\ regions[r].start \in EditedLines
              /\ regions[r].end \in EditedLines
              /\ r > 1 => regions[r].start > regions[r - 1].end + 2
        /\ \A k \in EditedLines : Cardinality(within(k)) = 1
        /\ regions = <<>> <=> user_edits = <<>>

\* edits tracked by two calls that leave two regions, 3 lines apart
C27_Witness ==
    /\ guard_call.op = "track_edit"
    /\ ops = MaxGuardOps
    /\ Len(protected_regions) = 2
    /\ protected_regions[2].start = protected_regions[1].end + 3

(***************************************************************************)
(* Properties of PlanValidator.                                            *)
(***************************************************************************)
\* the issues of the last validate call that are of one of the kinds
IssuesOf(kinds) == SelectSeq(checked.issues, LAMBDA i : i.kind \in kinds)

\* the items of the validated plan that are above the ground, declare no
\* dependency and have no item of another name below them that near(_, _)
\* holds for, as the floating issues they give
Unsupported(near(_, _)) ==
    LET items == checked.plan
        floats(item) ==
            /\ item.location[3] > 0
            /\ item.dependencies = <<>>
            /\ ~\E k \in DOMAIN items :
                   /\ items[k].name # item.name
                   /\ items[k].location[3] < item.location[3]
                   /\ near(item.location, items[k].location)
        found == SelectSeq(items, floats)
    IN  [k \in DOMAIN found |->
            Issue("floating", found[k].name, None, found[k].location[3])]

\* the square of the distance of two locations in the XY plane
Distance2(loc1, loc2) ==
    (loc1[1] - loc2[1]) * (loc1[1] - loc2[1])
        + (loc1[2] - loc2[2]) * (loc1[2] - loc2[2])

\* C19 as stated: the floating issues are those of the items with Z > 0, no
\* dependency and no other part of lower Z at a distance of at most 100 in
\* the XY plane; when one item is such, at height 50, there is exactly one
\* floating issue and the plan is not valid.
C19_Original ==
    checked.op = "validate" =>
        LET expected == Unsupported(LAMBDA p, q : Distance2(p, q) <= 100 * 100)
        IN  /\ IssuesOf({"floating"}) = expected
            /\ (Len(expected) = 1 /\ expected[1].num = 50)
                   => Len(IssuesOf({"floating"})) = 1 /\ ~checked.is_valid

\* C19: the floating issues are those of the items with Z > 0, no dependency
\* and no item of another name with lower Z at a distance of less than 100 in
\* the XY plane, one issue for each such item in the order of the plan; when
\* one item is such, at height 50, there is exactly one floating issue and
\* the plan is not valid.
C19_Floating ==
    checked.op = "validate" =>
        LET expected == Unsupported(LAMBDA p, q : Distance2(p, q) < 100 * 100)
        IN  /\ IssuesOf({"floating"}) = expected
            /\ (Len(expected) = 1 /\ expected[1].num = 50)
                   => Len(IssuesOf({"floating"})) = 1 /\ ~checked.is_valid

\* a plan of two parts, the upper one at height 50 without dependency and at
\* a distance of exactly 100 from the lower one, and flagged
C19_Witness ==
    /\ checked.op = "validate"
    /\ Len(IssuesOf({"floating"})) = 1
    /\ \E i, j \in DOMAIN checked.plan :
          /\ checked.plan[i].name # checked.plan[j].name
          /\ checked.plan[i].location[3] = 50
          /\ checked.plan[i].dependencies = <<>>
          /\ checked.plan[j].location[3] = 0
          /\ Distance2(checked.plan[i].location, checked.plan[j].location) = 100 * 100

\* C20: the issues validate returns are the floating issues, then the
\* dimension issues, then the dependency issues, each list as its check gives
\* it for the plan whatever the other checks found, and is_valid is true
\* exactly when there is no issue.
C20_ValidateConcatenates ==
    checked.op = "validate" =>
        LET issues == checked.issues
            rank(i) == CASE i.kind = "floating" -> 1
                         [] i.kind \in {"negative", "large"} -> 2
                         [] OTHER -> 3
        IN  /\ IssuesOf({"floating"}) = check_floating(checked.plan)
            /\ IssuesOf({"negative", "large"}) = check_dimensions(checked.plan)
            /\ IssuesOf({"missing"}) = check_dependencies(checked.plan)
            /\ \A i, j \in DOMAIN issues : i < j => rank(issues[i]) <= rank(issues[j])
            /\ checked.is_valid <=> issues = <<>>

\* a plan for which each of the three checks finds an issue
C20_Witness ==
    /\ checked.op = "validate"
    /\ IssuesOf({"floating"}) # <<>>
    /\ IssuesOf({"negative", "large"}) # <<>>
    /\ IssuesOf({"missing"}) # <<>>
    /\ ~checked.is_valid

(***************************************************************************)
(* Properties of the workflow.                                             *)
(***************************************************************************)
Stages == {"planner", "processors", "generator", "inspector"}

\* the run has ended: no stage is next
Halted == node \notin Stages

\* the entries of the history a node made
RanBy(n) == {i \in DOMAIN ran : ran[i].node = n}

\* C1: started in Planning with counter 0, the workflow ends in Done, after
\* at most Ceiling rounds of its four stages, whatever the services do.
C1_Original ==
    /\ Len(ran) <= 4 * Ceiling
    /\ Halted => node = "END"

C3_Original ==
    \A i \in RanBy("planner") :
        ran[i].outcome = "parse_error" =>
            /\ Len(ran) = i
            /\ Halted
            /\ messages = <<"Planner Error">>
            /\ escaped = None
            /\ i = 1 => plan = Absent /\ full_code = Absent

\* C4: a run in which every planning call succeeded and no inspection
\* answered PASS ends in Done, after exactly Ceiling Planning stages, with the
\* forced-pass annotation in the final feedback.
C4_Original ==
    (/\ Halted
     /\ \A i \in RanBy("planner") : ran[i].outcome = "ok"
     /\ \A i \in RanBy("inspector") : ~Contains(ran[i].response, "PASS"))
        => /\ node = "END"
           /\ Cardinality(RanBy("planner")) = Ceiling
           /\ ~inspector_feedback.is_none
           /\ Contains(inspector_feedback.value, ForcedNote)

\* C5: when PerPartGeneration ran on a plan and the part-code service failed
\* for a part, Assembly is next, every part of the plan has an entry in
\* worker_outputs, the failing part's entry is the failure marker and every
\* other part's entry is its fragment.
C5_Original ==
    (/\ ran # <<>>
     /\ ran[Len(ran)].node = "processors"
     /\ ran[Len(ran)].outcome # "no_plan")
        => LET gen == ran[Len(ran)].gen
               structure == StructureOf(plan.value)
               fails(i) == gen[i] = "raise" /\ structure[i].layer # "other"
               last(i) == \A j \in DOMAIN structure :
                             j > i => structure[j].id # structure[i].id
           IN  (\E i \in DOMAIN structure : fails(i)) =>
                  /\ node = "generator"
                  /\ escaped = None
                  /\ ~worker_outputs.is_none
                  /\ DOMAIN worker_outputs.value = {structure[i].id : i \in DOMAIN structure}
                  /\ \A i \in DOMAIN structure :
                        last(i) => worker_outputs.value[structure[i].id] =
                                      IF fails(i) THEN ErrorMarker(structure[i])
                                      ELSE Fragment(structure[i])

\* C22: the counter is 0 before anything ran, every Planning that returns
\* raises it by exactly one, it never exceeds the ceiling, and Planning is
\* never next while it is at the ceiling or above.
C22_Original ==
    /\ [](ran = <<>> => iteration_count = 0)
    /\ [](iteration_count <= Ceiling)
    /\ [](node = "planner" => iteration_count < Ceiling)
    /\ [][(/\ Len(ran') = Len(ran) + 1
           /\ ran'[Len(ran')].node = "planner"
           /\ node' # "crashed")
             => iteration_count' = iteration_count + 1]_vars

\* the stages of one iteration, in the order of the edges
StageOrder == <<"planner", "processors", "generator", "inspector">>

\* C23: the stages that ran are whole iterations of Planning,
\* PerPartGeneration, Assembly, Inspection in this order, ended by no
\* exception of the program's own; the first Planning got no feedback and
\* every later one the text of the Inspection just before it.
C23_Original ==
    /\ \A i \in DOMAIN ran : ran[i].node = StageOrder[((i - 1) % 4) + 1]
    /\ (Halted /\ escaped # "ServiceError") =>
           ran # <<>> /\ ran[Len(ran)].node = "inspector"
    /\ \A i \in RanBy("planner") :
           ran[i].feedback = IF i = 1 THEN Absent ELSE Some(ran[i - 1].response)

\* C21: once a generation or a render was asked to cancel, the code, the
\* model path, the plan and the part graph are what they were when the
\* operation started; and the part graph is at all times the whole graph of
\* the current plan.
C21_Original ==
    /\ worker.is_cancelled => ThisSession = worker.before
    /\ render.cancelled => ThisSession = render.before
    /\ Self = from_plan(current_plan)

\* C39: when edits or protected variables are tracked, the text merge_code
\* returns has as many lines as the new code, each of them the line of the
\* new code at its index or the content of a tracked edit that assigns a
\* number; and the call leaves the guard's tracked state as it was.
C39_Original ==
    /\ [](guard_call.op = "merge_code"
            /\ (user_edits # <<>> \/ protected_variables # {})
          => /\ Len(merged.result.lines) = Len(merged.fresh.lines)
             /\ \A k \in DOMAIN merged.result.lines :
                   \/ k <= Len(merged.fresh.lines)
                        /\ merged.result.lines[k] = merged.fresh.lines[k]
                   \/ \E i \in DOMAIN user_edits :
                         /\ is_parameter_line(user_edits[i].content)
                         /\ merged.result.lines[k] = user_edits[i].content)
    /\ [][guard_call'.op = "merge_code" =>
            UNCHANGED <<original_code, user_edits, protected_regions,
                        protected_variables>>]_vars

\* the (part, dep) pairs the issues of the kind "missing" name
MissingPairs(issues) ==
    {<<issues[i].part, issues[i].dep>> :
        i \in {j \in DOMAIN issues : issues[j].kind = "missing"}}

UniqueNames(items) ==
    \A i, j \in DOMAIN items : items[i].name = items[j].name => i = j

\* C37: for a plan whose items have different names, the dependency check of
\* PlanValidator and validate() of the graph from_plan builds report a
\* missing dependency for the same pairs (part, dep).
C37_DependencyChecksAgree ==
    (/\ checked.op = "check_dependencies"
     /\ returned.op = "validate"
     /\ UniqueNames(loaded))
        => MissingPairs(checked.issues) = MissingPairs(returned.issues)

\* both have judged a plan of two parts in which the first depends on the
\* second and the second on a part that is not there
C37_Witness ==
    /\ checked.op = "check_dependencies"
    /\ returned.op = "validate"
    /\ UniqueNames(loaded)
    /\ Len(loaded) = 2
    /\ loaded[1].dependencies = <<loaded[2].name>>
    /\ \E dep \in Names \ {loaded[1].name, loaded[2].name} :
          /\ loaded[2].dependencies = <<dep>>
          /\ MissingPairs(checked.issues) = {<<loaded[2].name, dep>>}

\* the graph add_part builds when the parts of the graph are added in the
\* order names
AddedIn(names) ==
    from_plan([i \in DOMAIN names |->
                  [name |-> names[i], dependencies |-> parts[names[i]].dependencies]])

\* the names a dfs collected
Support(bag) == {n \in Names : bag[n] > 0}

\* C38: for parts of different names, the answer of a query is the one the
\* graph gives when the same parts are added in any other order: the names
\* of get_affected_parts and get_dependencies, the issues of validate and
\* the members of topological_sort.
C38_OrderOfAddPart ==
    \A names \in Perms(DOMAIN parts) :
        LET g == AddedIn(names)
        IN  /\ returned.op = "get_affected_parts" =>
                  Support(returned.collected)
                      = Support(get_affected_parts(g, returned.arg).value)
            /\ returned.op = "get_dependencies" =>
                  Support(returned.collected)
                      = Support(get_dependencies(g, returned.arg).value)
            /\ returned.op = "validate" =>
                  Range(returned.issues) = Range(validate(g).value)
            /\ returned.op = "topological_sort" =>
                  \A result \in topological_sort(g) :
                      Range(result) = Range(returned.value)

\* a query answered with a name for a graph of three parts the first of
\* which was added before the part it depends on
C38_Witness ==
    /\ returned.op = "get_affected_parts"
    /\ Len(order) = 3
    /\ parts[order[1]].dependencies = <<order[3]>>
    /\ returned.arg = order[3]
    /\ order[1] \in Support(returned.collected)

\* the word at position k of a description is "angle", in any case
AngleAt(desc, k) == k \in DOMAIN desc /\ HasAngle(<<desc[k]>>)

\* C32: the dimension check flags each negative number of the description
\* that is not next to the word "angle", whether or not "angle" occurs
\* elsewhere, and no negative number that is next to it; and it flags each
\* number whose magnitude exceeds max_dimension.
C32_Original ==
    checked.op = "check_dimensions" =>
        LET desc == checked.plan[1].description
            numbers == {k \in DOMAIN desc : desc[k].word = ""}
            negative == {k \in numbers :
                            /\ desc[k].num < 0
                            /\ ~AngleAt(desc, k - 1) /\ ~AngleAt(desc, k + 1)}
            large == {k \in numbers : Abs(desc[k].num) > max_dimension}
            flagged(kind) == SelectSeq(checked.issues, LAMBDA i : i.kind = kind)
        IN  /\ Len(flagged("negative")) = Cardinality(negative)
            /\ \A k \in negative : \E j \in DOMAIN checked.issues :
                    checked.issues[j] = Issue("negative", checked.plan[1].name, None,
                                              desc[k].num)
            /\ Len(flagged("large")) = Cardinality(large)

\* C31: the text emit returns is empty whenever it has no labelled block of
\* a part, and otherwise its assembly line names exactly the parts of its
\* labelled blocks, in their order.
C31_Original ==
    emitted.op = "emit" =>
        /\ emitted.blocks = <<>> => emitted.empty
        /\ ~emitted.empty => emitted.assembly = emitted.blocks

\* C33: when PerPartGeneration ran on a plan whose parts have different ids,
\* every order of processing the parts gives the outcome that was stored,
\* and the stored mapping has for every part of the plan the entry of that
\* part: its fragment, or the failure marker when its service call failed.
C33_Original ==
    (/\ ran # <<>>
     /\ ran[Len(ran)].node = "processors"
     /\ ran[Len(ran)].outcome # "no_plan")
        => LET gen == ran[Len(ran)].gen
               structure == StructureOf(plan.value)
               fails(i) == gen[i] = "raise" /\ structure[i].layer # "other"
           IN  (/\ structure # <<>>
                /\ \A i, j \in DOMAIN structure :
                      structure[i].id = structure[j].id => i = j)
               => /\ \A p \in Perms(DOMAIN structure) :
                        LET loc == processing_step([i \in DOMAIN p |-> structure[p[i]]],
                                                   [i \in DOMAIN p |-> gen[p[i]]])
                        IN  /\ loc.exc = None
                            /\ worker_outputs = Some(loc.outputs)
                            /\ anchor_registry = Some(loc.anchor_registry)
                            /\ debug_metadata = Some(loc.debug_metadata)
                  /\ ~worker_outputs.is_none
                  /\ DOMAIN worker_outputs.value = {structure[i].id : i \in DOMAIN structure}
                  /\ \A i \in DOMAIN structure :
                        worker_outputs.value[structure[i].id] =
                            IF fails(i) THEN ErrorMarker(structure[i])
                            ELSE Fragment(structure[i])

\* the scripts whose execution exports a model
Exporting == {code \in Scripts : code.body \in {"box", "ball"}}

\* C34: when render_code, with caching enabled, returns a path for a script
\* that builds a model, the file at that path holds the model of that
\* script, also when the cache answered.
C34_Original ==
    (/\ rendered.op = "render_code" /\ rendered.use_cache
     /\ rendered.code \in Exporting /\ rendered.path # None)
    => /\ rendered.path \in DOMAIN model_files
       /\ model_files[rendered.path].shape = rendered.code.body

\* C35: a render that executed the script reports a path only when that
\* execution exported the file, a script that exports nothing gets
\* "No output file generated" from render_code_safe, and the cache holds no
\* entry for a script that exports nothing.
C35_Original ==
    /\ (rendered.op # None /\ ~rendered.hit /\ rendered.success)
       => rendered.exported
    /\ (/\ rendered.op = "render_code_safe"
        /\ clean_code_for_exec(rendered.code).body = "unbound")
       => ~rendered.success /\ rendered.error = "No output file generated"
    /\ \A h \in DOMAIN CODE_CACHE : h \in {"box", "ball"}

\* C36: with build123d installed, every namespace _get_preloaded_globals
\* has returned, to the preload thread or to a render call, holds the names
\* of the toolkit.
C36_Original ==
    toolkit =>
        \A t \in DOMAIN threads :
            threads[t].exec_globals # {} =>
                {"build123d", "math"} \subseteq threads[t].exec_globals

====
